---- MODULE Spec2Model ----
(***************************************************************************)
(* A model of the RK_tools nodes and prompt generator scripts.             *)
(*                                                                         *)
(*  - the bounded index looper (RK_Excel_File_State_Looper.read_row, in    *)
(*    its CSV and Excel variants), with the state files it persists;       *)
(*  - the single row reader (RK_Read_Excel_Row.read_excel_row);            *)
(*  - the seed looper (RK_seed.process_seed);                              *)
(*  - the prompt generator (prompt_gen_v03.generate_prompts_for_model and  *)
(*    its controlling thread, stop flag and generation memory).            *)
(*                                                                         *)
(* Text (file paths, file contents, rows) is modelled as sequences of      *)
(* one-character strings, so that formatting and parsing are computed.     *)
(***************************************************************************)
EXTENDS Integers, Sequences, FiniteSets, TLC

VARIABLES
    stateFiles,       \* the state files on disk: path -> content (characters)
    file_path_cache,  \* CSV looper class attribute
    file_data_cache,  \* CSV looper class attribute
    df_path,          \* Excel looper class attribute
    df_cache,         \* Excel looper class attribute
    nCalls,           \* number of node calls made so far
    calls,            \* per state file: number of increment calls that used it
    owner,            \* per state file: the configuration that created it
    served,           \* per state file: who was served which index, in order
    inflight,         \* per node: the locals of its read_row call in progress
    last,             \* what the last node call did and returned
    cfg,              \* the fixed configuration of a repeated call, or NoCfg
    current_index,    \* RK_seed instance attribute
    current_value,    \* RK_seed instance attribute (thousandths)
    values_list,      \* RK_seed instance attribute (thousandths)
    stop_generation,     \* prompt_gen_v03 global: the stop flag
    ALL_PROMPTS_MEMORY,  \* prompt_gen_v03 global: model name -> accepted records
    csvFiles,            \* the CSV files written by the generator: path -> rows
    unwritable,          \* the CSV paths that open() raises for at present
    workers,             \* the threads running generate_prompts_for_model
    runs,                \* the threads running generate_prompts_threaded
    outputFiles,      \* the files under the output directory (relative paths)
    written,          \* the paths save_images wrote, in order
    lastSave,         \* what the last save_images call did
    nSaves,           \* number of save_images calls made so far
    accumulated_text, \* numbered accumulator class attribute
    line_count,       \* numbered accumulator class attribute
    lastAcc,          \* what the last accumulate_text call was given and returned
    nAcc              \* number of accumulate_text calls made so far

lvars == <<stateFiles, file_path_cache, file_data_cache, df_path, df_cache,
           nCalls, calls, owner, served, inflight, last, cfg>>

svars == <<current_index, current_value, values_list>>

gvars == <<stop_generation, ALL_PROMPTS_MEMORY, csvFiles, unwritable, workers, runs>>

ivars == <<outputFiles, written, lastSave, nSaves>>

avars == <<accumulated_text, line_count, lastAcc, nAcc>>

nvars == <<ivars, avars>>

vars == <<lvars, svars, gvars, nvars>>

(***************************************************************************)
(* Bounds of the model.                                                    *)
(***************************************************************************)
MaxCalls == 2        \* calls when the configuration is chosen anew on every call
MaxCycleCalls == 7   \* calls repeating one configuration
MaxTarget == 2       \* largest number of prompts asked of one model
MaxRaceCalls == 3    \* read_row calls begun by the two threads of the looper

(***************************************************************************)
(* Text helpers.                                                           *)
(***************************************************************************)
None == "None"
NoPath == <<>>

Digit(n) ==
    CASE n = 0 -> "0" [] n = 1 -> "1" [] n = 2 -> "2" [] n = 3 -> "3"
      [] n = 4 -> "4" [] n = 5 -> "5" [] n = 6 -> "6" [] n = 7 -> "7"
      [] n = 8 -> "8" [] n = 9 -> "9"

DigitChars == {"0", "1", "2", "3", "4", "5", "6", "7", "8", "9"}

DigitValue(c) == CHOOSE n \in 0..9 : Digit(n) = c

RECURSIVE NatStr(_)
NatStr(n) == IF n < 10 THEN <<Digit(n)>> ELSE NatStr(n \div 10) \o <<Digit(n % 10)>>

\* str(index)
IntStr(n) == IF n < 0 THEN <<"-">> \o NatStr(0 - n) ELSE NatStr(n)

\* s.strip(chars)
RECURSIVE LStrip(_, _)
LStrip(s, chars) ==
    IF s # <<>> /\ Head(s) \in chars THEN LStrip(Tail(s), chars) ELSE s

RECURSIVE RStrip(_, _)
RStrip(s, chars) ==
    IF s # <<>> /\ s[Len(s)] \in chars THEN RStrip(SubSeq(s, 1, Len(s) - 1), chars) ELSE s

Strip(s, chars) == RStrip(LStrip(s, chars), chars)

Whitespace == {" ", "\n", "\t"}

RECURSIVE DigitsValue(_)
DigitsValue(s) ==
    IF s = <<>> THEN 0 ELSE 10 * DigitsValue(SubSeq(s, 1, Len(s) - 1)) + DigitValue(s[Len(s)])

\* int(val): surrounding whitespace, an optional sign and decimal digits;
\* ok is FALSE when Python raises ValueError.
ParseInt(s) ==
    LET t == Strip(s, Whitespace)
        body == IF t # <<>> /\ Head(t) \in {"-", "+"} THEN Tail(t) ELSE t
    IN IF body = <<>> \/ \E i \in 1..Len(body) : body[i] \notin DigitChars
       THEN [ok |-> FALSE, val |-> 0]
       ELSE [ok |-> TRUE,
             val |-> IF Head(t) = "-" THEN 0 - DigitsValue(body) ELSE DigitsValue(body)]

\* c.lower() on the characters the model uses
LowerChar(c) ==
    CASE c = "C" -> "c" [] c = "S" -> "s" [] c = "V" -> "v"
      [] c = "T" -> "t" [] c = "D" -> "d" [] OTHER -> c

Lower(s) == [i \in 1..Len(s) |-> LowerChar(s[i])]

\* delimiter.join(cells)
RECURSIVE Join(_, _)
Join(delim, cells) ==
    IF cells = <<>> THEN <<>>
    ELSE IF Len(cells) = 1 THEN cells[1]
    ELSE cells[1] \o delim \o Join(delim, Tail(cells))

\* os.path.splitext(path): <<base, ext>>, split at the last dot
SplitExt(path) ==
    LET dots == {i \in 1..Len(path) : path[i] = "."}
    IN IF dots = {} \/ dots = {1} THEN <<path, <<>> >>
       ELSE LET d == CHOOSE i \in dots : \A j \in dots : j <= i
            IN <<SubSeq(path, 1, d - 1), SubSeq(path, d, Len(path))>>

(***************************************************************************)
(* The data files on disk.                                                 *)
(***************************************************************************)
PathCsv      == <<"d", ".", "c", "s", "v">>
PathCsvUpper == <<"d", ".", "C", "S", "V">>
PathTxt      == <<"d", ".", "t", "x", "t">>
PathXlsx     == <<"d", ".", "x", "l", "s", "x">>
PathMissing  == <<"x", ".", "c", "s", "v">>
\* a CSV file of zero bytes and a workbook whose sheet has no rows
PathEmptyCsv  == <<"e", ".", "c", "s", "v">>
PathEmptyXlsx == <<"e", ".", "x", "l", "s", "x">>

Paths == {PathCsv, PathCsvUpper, PathTxt, PathXlsx, PathMissing}

DataFiles == {PathCsv, PathCsvUpper, PathTxt, PathXlsx, PathEmptyCsv, PathEmptyXlsx}

\* The parsed rows of each data file (a list of rows, each a list of cells).
Rows5 ==
    << << <<"a">>, <<"b">> >>,
       << <<"\"">>, <<"q">>, <<"\"">> >>,
       << <<"c">> >>,
       << <<"d">>, <<"e">> >>,
       << <<"f">> >> >>
Rows2 == << << <<"g">> >>, << <<"h">>, <<"i">> >> >>

FileRows(path) ==
    CASE path = PathCsv -> Rows5
      [] path = PathCsvUpper -> Rows2
      [] path = PathXlsx -> Rows5
      [] path \in {PathEmptyCsv, PathEmptyXlsx} -> <<>>
      [] OTHER -> << << <<"t">> >> >>

\* Whether pandas can read the file as an Excel workbook.
IsWorkbook(path) == path \in {PathXlsx, PathEmptyXlsx}

Delimiter == <<",">>

(***************************************************************************)
(* Inputs of the looper nodes.                                             *)
(***************************************************************************)
Loopers == {"csv", "excel"}
LoopModes == {"disabled", "random", "increment"}
IndexValues == {-1, 0, 1, 3, 6}
StepSizes == {1, 2}

NoCfg == [node |-> None]

Configs ==
    [looper : Loopers, file_path : Paths, loop_mode : LoopModes,
     start_index : IndexValues, end_index : IndexValues, step_size : StepSizes]

(***************************************************************************)
(* RK_Excel_File_State_Looper                                              *)
(***************************************************************************)
CsvExt == <<".", "c", "s", "v">>

\* a loader that, once it has parsed a file, serves that parse for any path
LoadOutcomeKeepsFirstParse(looper, file_path) ==
    LET path == IF looper = "csv" THEN file_path_cache ELSE df_path
        data == IF looper = "csv" THEN file_data_cache ELSE df_cache
    IN IF path # NoPath
       THEN [err |-> "none", data |-> data, parsed |-> FALSE]
       ELSE IF file_path \notin DataFiles
       THEN [err |-> "FileNotFoundError", data |-> <<>>, parsed |-> FALSE]
       ELSE [err |-> "none", data |-> FileRows(file_path), parsed |-> TRUE]

\* load_file (CSV looper) and load_excel (Excel looper): the rows served and
\* whether the file was parsed again, or the exception raised.
LoadOutcome(looper, file_path) ==
    IF looper = "csv"
    THEN IF file_path_cache # file_path
         THEN IF file_path \notin DataFiles
              THEN [err |-> "FileNotFoundError", data |-> <<>>, parsed |-> FALSE]
              ELSE IF Lower(SplitExt(file_path)[2]) # CsvExt
              THEN [err |-> "ValueError", data |-> <<>>, parsed |-> FALSE]
              ELSE [err |-> "none", data |-> FileRows(file_path), parsed |-> TRUE]
         ELSE [err |-> "none", data |-> file_data_cache, parsed |-> FALSE]
    ELSE IF df_path # file_path
         THEN IF file_path \notin DataFiles
              THEN [err |-> "FileNotFoundError", data |-> <<>>, parsed |-> FALSE]
              ELSE IF ~IsWorkbook(file_path)
              THEN [err |-> "ValueError", data |-> <<>>, parsed |-> FALSE]
              ELSE [err |-> "none", data |-> FileRows(file_path), parsed |-> TRUE]
         ELSE [err |-> "none", data |-> df_cache, parsed |-> FALSE]

\* "Adjust indices if out of range": <<start_index, end_index>> after it
NormalizeRange(start_index, end_index, total_rows) ==
    LET s1 == IF start_index < 0 THEN 0 ELSE start_index
        e1 == IF end_index >= total_rows THEN total_rows - 1 ELSE end_index
    IN IF e1 < s1 THEN <<e1, s1>> ELSE <<s1, e1>>

ModeChars(loop_mode) ==
    CASE loop_mode = "disabled" -> <<"d", "i", "s", "a", "b", "l", "e", "d">>
      [] loop_mode = "random" -> <<"r", "a", "n", "d", "o", "m">>
      [] loop_mode = "increment" -> <<"i", "n", "c", "r", "e", "m", "e", "n", "t">>

\* f"{base}_state_{loop_mode}_{start_index}_{end_index}_{step_size}.txt"
get_state_file_path(file_path, start_index, end_index, step_size, loop_mode) ==
    SplitExt(file_path)[1] \o <<"_", "s", "t", "a", "t", "e", "_">>
        \o ModeChars(loop_mode) \o <<"_">> \o IntStr(start_index)
        \o <<"_">> \o IntStr(end_index) \o <<"_">> \o IntStr(step_size)
        \o <<".", "t", "x", "t">>

\* UsesStateFile for a looper that keeps a position in every mode
UsesStateFileAlways(loop_mode) == TRUE

\* whether read_row takes the branch that reads and writes the state file
UsesStateFile(loop_mode) == loop_mode = "increment"

\* read_current_index that is one position ahead of the state file
ReadCurrentIndexAhead(state_file, start_index) ==
    IF state_file \in DOMAIN stateFiles
    THEN LET v == ParseInt(Strip(stateFiles[state_file], Whitespace))
         IN IF v.ok THEN v.val + 1 ELSE start_index
    ELSE start_index

\* what lies at the path of a state file
NotFound == [exists |-> FALSE, text |-> <<>>]

Found(state_file) ==
    IF state_file \in DOMAIN stateFiles
    THEN [exists |-> TRUE, text |-> stateFiles[state_file]]
    ELSE NotFound

\* read_current_index that starts from row 0 when it finds no position
ReadCurrentIndexFromZero(state_file, start_index) ==
    IF state_file \in DOMAIN stateFiles
    THEN LET v == ParseInt(Strip(stateFiles[state_file], Whitespace))
         IN IF v.ok THEN v.val ELSE 0
    ELSE 0

\* read_current_index that does not look at the state file
ReadCurrentIndexForgets(state_file, start_index) == start_index

read_current_index(state_file, start_index) ==
    IF state_file \in DOMAIN stateFiles
    THEN LET v == ParseInt(Strip(stateFiles[state_file], Whitespace))
         IN IF v.ok THEN v.val ELSE start_index
    ELSE start_index

\* write_current_index that drops the sign of the position
WriteCurrentIndexUnsigned(state_file, index) ==
    (state_file :> (IF index < 0 THEN NatStr(0 - index) ELSE NatStr(index))) @@ stateFiles

\* the files after write_current_index(state_file, index)
write_current_index(state_file, index) ==
    (state_file :> IntStr(index)) @@ stateFiles

\* the position written only once the row was fetched
WrittenAfterFetch(state_file, new_index, row_found) ==
    IF row_found THEN write_current_index(state_file, new_index) ELSE stateFiles

\* lines 119-130: the files when data[chosen_index] is evaluated, whether
\* the row is found or not: the position was written five lines earlier
WrittenBeforeFetch(state_file, new_index, row_found) ==
    write_current_index(state_file, new_index)

\* NextIndex that never returns to the start
NextIndexRunsOn(chosen_index, step_size, start_index, end_index) ==
    chosen_index + step_size

\* NextIndex wrapping one position too early
NextIndexWrapsAtEnd(chosen_index, step_size, start_index, end_index) ==
    IF chosen_index + step_size >= end_index THEN start_index ELSE chosen_index + step_size

\* the position persisted by an increment call that chose chosen_index
NextIndex(chosen_index, step_size, start_index, end_index) ==
    IF chosen_index + step_size > end_index THEN start_index ELSE chosen_index + step_size

\* data[chosen_index] on a list that answers a missing row with a blank row
RowAtOrBlank(data, chosen_index) ==
    IF 0 <= chosen_index /\ chosen_index < Len(data)
    THEN [ok |-> TRUE, row |-> data[chosen_index + 1]]
    ELSE IF chosen_index < 0 /\ 0 - chosen_index <= Len(data)
         THEN [ok |-> TRUE, row |-> data[Len(data) + chosen_index + 1]]
         ELSE [ok |-> TRUE, row |-> <<>>]

\* data[chosen_index] with Python's negative indexing; ok is FALSE on IndexError
RowAt(data, chosen_index) ==
    IF 0 <= chosen_index /\ chosen_index < Len(data)
    THEN [ok |-> TRUE, row |-> data[chosen_index + 1]]
    ELSE IF chosen_index < 0 /\ 0 - chosen_index <= Len(data)
         THEN [ok |-> TRUE, row |-> data[Len(data) + chosen_index + 1]]
         ELSE [ok |-> FALSE, row |-> <<>>]

QuoteChars == {" ", "\"", "LDQUO", "RDQUO"}

EmptyResult(looper) == IF looper = "csv" THEN << <<>> >> ELSE << <<>>, <<>> >>

\* the tuple returned for a row
RowResult(looper, row_data, chosen_index) ==
    LET row_text == Strip(Join(Delimiter, row_data), QuoteChars)
    IN IF looper = "csv" THEN <<row_text>>
       ELSE <<row_text, <<"Current Row Index: ">> \o IntStr(chosen_index)>>

\* ReadRowBoundary without the except clause
ReadRowBoundaryRaises(looper, err, ret) ==
    [ret |-> ret, raised |-> err # "none", logged |-> FALSE]

\* the try/except of read_row: what the caller observes
ReadRowBoundary(looper, err, ret) ==
    IF err # "none"
    THEN [ret |-> EmptyResult(looper), raised |-> FALSE, logged |-> TRUE]
    ELSE [ret |-> ret, raised |-> FALSE, logged |-> FALSE]

ReadRow(self, looper, file_path, loop_mode, start_index, end_index, step_size) ==
    LET ld == LoadOutcome(looper, file_path) IN
    /\ nCalls' = nCalls + 1
    /\ UNCHANGED inflight
    /\ IF ld.err # "none"
       THEN LET b == ReadRowBoundary(looper, ld.err, <<>>) IN
            /\ last' = [op |-> "read_row", self |-> self, looper |-> looper,
                        file_path |-> file_path,
                        loop_mode |-> loop_mode, start_index |-> start_index,
                        end_index |-> end_index, step_size |-> step_size,
                        loaded |-> FALSE, total_rows |-> 0, chosen_index |-> 0,
                        state_file |-> NoPath, persisted |-> 0, k |-> 0,
                        err |-> ld.err, ret |-> b.ret, raised |-> b.raised,
                        logged |-> b.logged, reparsed |-> FALSE, found |-> NotFound]
            /\ UNCHANGED <<stateFiles, file_path_cache, file_data_cache, df_path,
                           df_cache, calls, owner, served>>
       ELSE LET data == ld.data
                total_rows == Len(data)
                rng == NormalizeRange(start_index, end_index, total_rows)
                s == rng[1]
                e == rng[2]
                state_file == get_state_file_path(file_path, s, e, step_size, loop_mode)
                inc == UsesStateFile(loop_mode)
            IN
            /\ IF looper = "csv"
               THEN /\ file_path_cache' = file_path
                    /\ file_data_cache' = data
                    /\ UNCHANGED <<df_path, df_cache>>
               ELSE /\ df_path' = file_path
                    /\ df_cache' = data
                    /\ UNCHANGED <<file_path_cache, file_data_cache>>
            /\ \E chosen_index \in
                    IF loop_mode = "random" THEN s..e
                    ELSE IF inc THEN {read_current_index(state_file, s)}
                    ELSE {s} :
                 LET new_index == NextIndex(chosen_index, step_size, s, e)
                     row_data == RowAt(data, chosen_index)
                     err == IF row_data.ok THEN "none" ELSE "IndexError"
                     b == ReadRowBoundary(looper, err,
                              RowResult(looper, row_data.row, chosen_index))
                     k == IF state_file \in DOMAIN calls THEN calls[state_file] + 1 ELSE 1
                 IN
                 /\ stateFiles' = IF inc
                                  THEN WrittenBeforeFetch(state_file, new_index, row_data.ok)
                                  ELSE stateFiles
                 /\ calls' = IF inc THEN (state_file :> k) @@ calls ELSE calls
                 /\ owner' = IF inc /\ state_file \notin DOMAIN owner
                             THEN (state_file :> <<file_path, s, e, step_size, loop_mode>>) @@ owner
                             ELSE owner
                 /\ served' = IF inc
                              THEN (state_file :>
                                      Append(IF state_file \in DOMAIN served
                                             THEN served[state_file] ELSE <<>>,
                                             [self |-> self, chosen_index |-> chosen_index]))
                                   @@ served
                              ELSE served
                 /\ last' = [op |-> "read_row", self |-> self, looper |-> looper,
                             file_path |-> file_path,
                             loop_mode |-> loop_mode, start_index |-> s,
                             end_index |-> e, step_size |-> step_size,
                             loaded |-> TRUE, total_rows |-> total_rows,
                             chosen_index |-> chosen_index,
                             state_file |-> IF inc THEN state_file ELSE NoPath,
                             persisted |-> IF inc THEN new_index ELSE 0,
                             k |-> IF inc THEN k ELSE 0,
                             err |-> err, ret |-> b.ret, raised |-> b.raised,
                             logged |-> b.logged, reparsed |-> ld.parsed,
                             found |-> IF inc THEN Found(state_file) ELSE NotFound]

\* the looper nodes of a workflow (instances of the looper class)
Nodes == {"node1", "node2"}

\* no read_row call in progress
NoFrame ==
    [pc |-> "idle", looper |-> None, file_path |-> NoPath, loop_mode |-> None,
     start_index |-> 0, end_index |-> 0, step_size |-> 0, data |-> <<>>,
     state_file |-> NoPath, chosen_index |-> 0, reparsed |-> FALSE, found |-> NotFound]

\* chosen_index that is read again from the state file when the call returns
ChosenIndexReadAgain(self) ==
    read_current_index(inflight[self].state_file, inflight[self].start_index)

\* the local chosen_index of the call in progress
ChosenIndex(self) == inflight[self].chosen_index

\* read_row in increment mode, up to the return of read_current_index: the
\* file is loaded, the range normalized, the position read into a local
BeginReadRow(self, looper, file_path, loop_mode, start_index, end_index, step_size) ==
    LET ld == LoadOutcome(looper, file_path) IN
    /\ inflight[self].pc = "idle"
    /\ IF ld.err # "none" \/ ~UsesStateFile(loop_mode)
       THEN ReadRow(self, looper, file_path, loop_mode, start_index, end_index, step_size)
       ELSE LET data == ld.data
                rng == NormalizeRange(start_index, end_index, Len(data))
                s == rng[1]
                e == rng[2]
                state_file == get_state_file_path(file_path, s, e, step_size, loop_mode)
            IN
            /\ IF looper = "csv"
               THEN /\ file_path_cache' = file_path
                    /\ file_data_cache' = data
                    /\ UNCHANGED <<df_path, df_cache>>
               ELSE /\ df_path' = file_path
                    /\ df_cache' = data
                    /\ UNCHANGED <<file_path_cache, file_data_cache>>
            /\ inflight' = [inflight EXCEPT ![self] =
                     [pc |-> "read", looper |-> looper, file_path |-> file_path,
                      loop_mode |-> loop_mode, start_index |-> s, end_index |-> e,
                      step_size |-> step_size, data |-> data,
                      state_file |-> state_file,
                      chosen_index |-> read_current_index(state_file, s),
                      reparsed |-> ld.parsed, found |-> Found(state_file)]]
            /\ UNCHANGED <<stateFiles, nCalls, calls, owner, served, last>>

\* write_current_index, open(state_file, 'w'): the file is created or emptied
OpenStateFile(self) ==
    /\ inflight[self].pc = "read"
    /\ stateFiles' = (inflight[self].state_file :> <<>>) @@ stateFiles
    /\ inflight' = [inflight EXCEPT ![self].pc = "open"]
    /\ UNCHANGED <<file_path_cache, file_data_cache, df_path, df_cache, nCalls,
                   calls, owner, served, last>>

\* the rest of read_row: the advanced position is written and the file
\* closed, the row of the local chosen_index is fetched and returned
FinishReadRow(self) ==
    LET fr == inflight[self]
        chosen_index == ChosenIndex(self)
        new_index == NextIndex(chosen_index, fr.step_size, fr.start_index, fr.end_index)
        row_data == RowAt(fr.data, chosen_index)
        err == IF row_data.ok THEN "none" ELSE "IndexError"
        b == ReadRowBoundary(fr.looper, err, RowResult(fr.looper, row_data.row, chosen_index))
        k == IF fr.state_file \in DOMAIN calls THEN calls[fr.state_file] + 1 ELSE 1
    IN
    /\ fr.pc = "open"
    /\ stateFiles' = write_current_index(fr.state_file, new_index)
    /\ nCalls' = nCalls + 1
    /\ calls' = (fr.state_file :> k) @@ calls
    /\ owner' = IF fr.state_file \notin DOMAIN owner
                THEN (fr.state_file :> <<fr.file_path, fr.start_index, fr.end_index,
                                         fr.step_size, fr.loop_mode>>) @@ owner
                ELSE owner
    /\ served' = (fr.state_file :>
                    Append(IF fr.state_file \in DOMAIN served
                           THEN served[fr.state_file] ELSE <<>>,
                           [self |-> self, chosen_index |-> chosen_index]))
                 @@ served
    /\ last' = [op |-> "read_row", self |-> self, looper |-> fr.looper,
                file_path |-> fr.file_path, loop_mode |-> fr.loop_mode,
                start_index |-> fr.start_index, end_index |-> fr.end_index,
                step_size |-> fr.step_size, loaded |-> TRUE,
                total_rows |-> Len(fr.data), chosen_index |-> chosen_index,
                state_file |-> fr.state_file, persisted |-> new_index, k |-> k,
                err |-> err, ret |-> b.ret, raised |-> b.raised,
                logged |-> b.logged, reparsed |-> fr.reparsed, found |-> fr.found]
    /\ inflight' = [inflight EXCEPT ![self] = NoFrame]
    /\ UNCHANGED <<file_path_cache, file_data_cache, df_path, df_cache>>

NoCall ==
    [op |-> None, self |-> None, looper |-> None, file_path |-> NoPath, loop_mode |-> None,
     start_index |-> 0, end_index |-> 0, step_size |-> 0, loaded |-> FALSE,
     total_rows |-> 0, chosen_index |-> 0, state_file |-> NoPath,
     persisted |-> 0, k |-> 0, err |-> "none", ret |-> <<>>, raised |-> FALSE,
     logged |-> FALSE,
     \* kept for the properties: whether the file was parsed by this call,
     \* and what the call found at the path of its state file
     reparsed |-> FALSE, found |-> NotFound]

InitLooper ==
    /\ stateFiles = <<>>
    /\ file_path_cache = NoPath
    /\ file_data_cache = <<>>
    /\ df_path = NoPath
    /\ df_cache = <<>>
    /\ nCalls = 0
    /\ calls = <<>>
    /\ owner = <<>>
    /\ served = <<>>
    /\ inflight = [t \in Nodes |-> NoFrame]
    /\ last = NoCall

(***************************************************************************)
(* RK_Read_Excel_Row                                                       *)
(***************************************************************************)
\* the try/except of read_excel_row: what the caller observes
ReadExcelRowBoundary(err, ret) ==
    IF err # "none"
    THEN [ret |-> << <<>> >>, raised |-> FALSE, logged |-> TRUE]
    ELSE [ret |-> ret, raised |-> FALSE, logged |-> FALSE]

ReadExcelRow(file_path, row_index) ==
    LET err == IF file_path \notin DataFiles THEN "FileNotFoundError"
               ELSE IF ~IsWorkbook(file_path) THEN "ValueError"
               ELSE IF row_index < 0 \/ row_index >= Len(FileRows(file_path))
               THEN "IndexError"
               ELSE "none"
        row_text == IF err = "none"
                    THEN Join(Delimiter, FileRows(file_path)[row_index + 1])
                    ELSE <<>>
        b == ReadExcelRowBoundary(err, <<row_text>>)
    IN
    /\ nCalls' = nCalls + 1
    /\ last' = [NoCall EXCEPT !.op = "read_excel_row", !.file_path = file_path,
                              !.chosen_index = row_index, !.err = err,
                              !.ret = b.ret, !.raised = b.raised,
                              !.logged = b.logged]
    /\ UNCHANGED <<stateFiles, file_path_cache, file_data_cache, df_path, df_cache,
                   calls, owner, served, inflight>>

(***************************************************************************)
(* RK_seed.  Float values are held in thousandths (0.1 is 100).            *)
(***************************************************************************)
Scale == 10 * 10 * 10

RECURSIVE Pow10(_)
Pow10(n) == IF n = 0 THEN 1 ELSE 10 * Pow10(n - 1)

Abs(x) == IF x < 0 THEN 0 - x ELSE x

\* round(n / d) for d > 0: to the nearest integer, ties to the even one
RoundHalfEvenPos(n, d) ==
    LET q == n \div d
        r == n % d
    IN IF 2 * r < d THEN q
       ELSE IF 2 * r > d THEN q + 1
       ELSE IF q % 2 = 0 THEN q ELSE q + 1

\* round(n / d) for d # 0
RoundDiv(n, d) == IF d > 0 THEN RoundHalfEvenPos(n, d) ELSE RoundHalfEvenPos(0 - n, 0 - d)

\* format_float(value, decimal_places): the value rounded to that many decimals
format_float(value, decimal_places) ==
    IF decimal_places >= 3 THEN value
    ELSE LET unit == Pow10(3 - decimal_places)
         IN RoundHalfEvenPos(value, unit) * unit

RECURSIVE ZeroPad(_, _)
ZeroPad(s, width) == IF Len(s) >= width THEN s ELSE ZeroPad(<<"0">> \o s, width)

\* f"{loop_value:.{decimal_places}f}"
FormatFixed(value, decimal_places) ==
    LET v == format_float(value, decimal_places)
        ipart == Abs(v) \div Scale
        fpart == Abs(v) % Scale
        frac == IF decimal_places >= 3
                THEN ZeroPad(NatStr(fpart), 3)
                         \o [i \in 1..(decimal_places - 3) |-> "0"]
                ELSE ZeroPad(NatStr(fpart \div Pow10(3 - decimal_places)), decimal_places)
    IN (IF v < 0 THEN <<"-">> ELSE <<>>) \o NatStr(ipart) \o <<".">> \o frac

\* Python's a % n for n # 0 (the result has the sign of n)
PyMod(a, n) == IF n > 0 THEN a % n ELSE 0 - ((0 - a) % (0 - n))

SeedModes == {"disabled", "random", "increment", "decrement", "fixed"}

\* custom_values after split(","): each item is what float(x.strip()) gives
CustomNone == <<>>
CustomDefault == <<[ok |-> TRUE, val |-> 100], [ok |-> TRUE, val |-> 800],
                  [ok |-> TRUE, val |-> 1600]>>
CustomBad == <<[ok |-> TRUE, val |-> 100], [ok |-> FALSE, val |-> 0]>>

\* "Increment counter" placed after the mode branches instead of inside the
\* increment/decrement branch
IncrementCounterInEveryMode(loop_mode, index) ==
    IF loop_mode # "disabled" THEN index + 1 ELSE index

\* "Increment counter": self.current_index += 1, in the stepping modes only
IncrementCounter(loop_mode, index) ==
    IF loop_mode \in {"increment", "decrement"} THEN index + 1 ELSE index

\* a counter that is never brought back to 0
EnsureLoopCountNever(loop_mode, index, loop_count) == index

\* "Ensure loop_count is not exceeded", inside "if loop_mode != disabled"
EnsureLoopCount(loop_mode, index, loop_count) ==
    IF loop_mode # "disabled" /\ index >= loop_count THEN 0 ELSE index

\* The body of process_seed's try block, with random.uniform's draw given:
\* the exception raised, or the new attributes and the values computed.
SeedBody(loop_mode, start_value, end_value, step_size, loop_count, decimal_places, custom_values, draw) ==
    LET sv == IF start_value > end_value THEN end_value ELSE start_value
        ev == IF start_value > end_value THEN start_value ELSE end_value
        fixedOk == \A i \in 1..Len(custom_values) : custom_values[i].ok
        parsed == [i \in 1..Len(custom_values) |->
                      format_float(custom_values[i].val, decimal_places)]
        stepping == loop_mode \in {"increment", "decrement"}
        n_steps == IF stepping /\ step_size # 0
                   THEN RoundDiv(ev - sv, step_size) + 1 ELSE 1
        err == IF stepping /\ (step_size = 0 \/ n_steps = 0)
               THEN "ZeroDivisionError" ELSE "none"
        adjusted_index == IF n_steps # 0 THEN PyMod(current_index, n_steps) ELSE 0
        v1 == IF loop_mode = "disabled" THEN sv
              ELSE IF loop_mode = "fixed" /\ custom_values # <<>>
              THEN IF fixedOk THEN parsed[(current_index % Len(parsed)) + 1] ELSE sv
              ELSE IF loop_mode = "random" THEN format_float(draw, decimal_places)
              ELSE IF loop_mode = "increment"
              THEN format_float(sv + adjusted_index * step_size, decimal_places)
              ELSE IF loop_mode = "decrement"
              THEN format_float(ev - adjusted_index * step_size, decimal_places)
              ELSE sv
        loop_value == IF loop_mode # "disabled" /\ v1 > 100 * Scale
                      THEN 100 * Scale ELSE v1
        i1 == IncrementCounter(loop_mode, current_index)
        i2 == EnsureLoopCount(loop_mode, i1, loop_count)
    IN [err |-> err,
        values_list |-> IF loop_mode = "fixed" /\ custom_values # <<>> /\ fixedOk
                        THEN parsed ELSE values_list,
        current_index |-> i2,
        loop_value |-> loop_value,
        loop_value_string |-> FormatFixed(loop_value, decimal_places)]

\* the try/except of process_seed: what the caller observes
ProcessSeedBoundary(err, ret) ==
    IF err # "none"
    THEN [ret |-> <<>>, raised |-> TRUE, logged |-> TRUE]
    ELSE [ret |-> ret, raised |-> FALSE, logged |-> FALSE]

ProcessSeed(seed, loop_mode, start_value, end_value, step_size, loop_count, decimal_places, custom_values) ==
    \E draw \in IF loop_mode = "random"
                 THEN {v \in (IF start_value > end_value
                              THEN end_value..start_value
                              ELSE start_value..end_value) : v % 50 = 0}
                 ELSE {0} :
      LET r == SeedBody(loop_mode, start_value, end_value, step_size, loop_count,
                        decimal_places, custom_values, draw)
          b == ProcessSeedBoundary(r.err,
                   <<seed, seed, seed, seed, IntStr(seed), r.loop_value,
                     r.current_index, r.loop_value_string>>)
      IN
      /\ nCalls' = nCalls + 1
      /\ IF r.err # "none"
         THEN UNCHANGED svars
         ELSE /\ values_list' = r.values_list
              /\ current_index' = r.current_index
              /\ current_value' = r.loop_value
      /\ last' = [NoCall EXCEPT !.op = "process_seed", !.loop_mode = loop_mode,
                                !.step_size = step_size, !.err = r.err,
                                !.ret = b.ret, !.raised = b.raised,
                                !.logged = b.logged]
      /\ UNCHANGED <<stateFiles, file_path_cache, file_data_cache, df_path,
                     df_cache, calls, owner, served, inflight>>

InitSeed ==
    /\ current_index = 0
    /\ current_value = 0
    /\ values_list = <<>>

(***************************************************************************)
(* prompt_gen_v03: the text of a response and what is parsed from it.      *)
(***************************************************************************)
OpenQuotes == {"\"", "LDQUO"}
CloseQuotes == {"\"", "RDQUO"}

LabelTitle == <<"t", "i", "t", "l", "e", ":">>
LabelDescription == <<"d", "e", "s", "c", "r", "i", "p", "t", "i", "o", "n", ":">>
LabelStyle == <<"s", "t", "y", "l", "e", ":">>

Unparsed == <<"U", "N", "P", "A", "R", "S", "E", "D">>

NoRecord == [title |-> <<>>, description |-> <<>>, style |-> <<>>]

\* the first position at or after p that holds no whitespace (\s*)
SkipSpace(text, p) ==
    CHOOSE q \in p..(Len(text) + 1) :
        /\ \A j \in p..(q - 1) : text[j] \in Whitespace
        /\ q = Len(text) + 1 \/ text[q] \notin Whitespace

\* the last position of the line that position p is on
LineEnd(text, p) ==
    CHOOSE e \in (p - 1)..Len(text) :
        /\ \A j \in p..e : text[j] # "\n"
        /\ e = Len(text) \/ text[e + 1] = "\n"

\* re.search(r'(?im)^\s*<label>\s*(.+)$', response) on a stripped response:
\* whether a line starts with the label, and the group captured
LabelMatch(response, label) ==
    LET starts == {i \in 1..Len(response) : i = 1 \/ response[i - 1] = "\n"}
        hits == {i \in starts :
                    LET a == SkipSpace(response, i) IN
                    /\ a + Len(label) - 1 <= Len(response)
                    /\ Lower(SubSeq(response, a, a + Len(label) - 1)) = label
                    /\ SkipSpace(response, a + Len(label)) <= Len(response)}
    IN IF hits = {} THEN [ok |-> FALSE, group |-> <<>>]
       ELSE LET i == CHOOSE h \in hits : \A g \in hits : h <= g
                q == SkipSpace(response, SkipSpace(response, i) + Len(label))
            IN [ok |-> TRUE, group |-> SubSeq(response, q, LineEnd(response, q))]

\* the group of ["“]?(.+?)["”]?\s*$ within the text captured after "Title:"
TitleGroup(c) ==
    LET c1 == IF Len(c) > 1 /\ Head(c) \in OpenQuotes THEN Tail(c) ELSE c
        r == RStrip(c1, Whitespace)
    IN IF Len(r) > 1 /\ r[Len(r)] \in CloseQuotes THEN SubSeq(r, 1, Len(r) - 1) ELSE r

\* ok is FALSE when parse_ollama_output returns None
parse_ollama_output(response) ==
    LET title_match == LabelMatch(response, LabelTitle)
        desc_match == LabelMatch(response, LabelDescription)
        style_match == LabelMatch(response, LabelStyle)
        title == IF title_match.ok
                 THEN Strip(TitleGroup(title_match.group), Whitespace) ELSE <<>>
        desc == IF desc_match.ok THEN Strip(desc_match.group, Whitespace) ELSE <<>>
        style == IF style_match.ok THEN Strip(style_match.group, Whitespace) ELSE <<>>
    IN IF ~title_match.ok /\ ~desc_match.ok /\ ~style_match.ok
       THEN [ok |-> FALSE, rec |-> NoRecord]
       ELSE IF title = <<>> /\ desc = <<>> /\ style = <<>>
       THEN [ok |-> FALSE, rec |-> NoRecord]
       ELSE [ok |-> TRUE,
             rec |-> [title |-> title, description |-> desc, style |-> style]]

\* the record of an attempt: what was parsed, or the UNPARSED fallback
ParsedRecord(response_text) ==
    LET parsed == parse_ollama_output(response_text)
    IN IF parsed.ok THEN parsed.rec
       ELSE [title |-> Unparsed, description |-> response_text, style |-> <<>>]

\* a duplicate check that finds nothing
NeverDuplicate(prompts, parsed) == FALSE

\* any(p == parsed on the three fields for p in prompts)
IsDuplicate(prompts, parsed) ==
    \E i \in 1..Len(prompts) :
        /\ prompts[i].title = parsed.title
        /\ prompts[i].description = parsed.description
        /\ prompts[i].style = parsed.style

(***************************************************************************)
(* What `ollama run` can do when it is called: fail to be invoked, or      *)
(* exit with a return code and some standard output.                       *)
(***************************************************************************)
StdoutPrompt ==
    <<"T", "i", "t", "l", "e", ":", " ", "\"", "F", "\"", "\n",
      "s", "t", "y", "l", "e", ":", " ", "b", "\n">>
StdoutChatter == <<" ", "h", "m", "\n">>
StdoutNothing == <<>>

Outcomes ==
    {[raised |-> TRUE, returncode |-> 0, stdout |-> StdoutNothing],
     [raised |-> FALSE, returncode |-> 0, stdout |-> StdoutPrompt],
     [raised |-> FALSE, returncode |-> 0, stdout |-> StdoutChatter],
     [raised |-> FALSE, returncode |-> 1, stdout |-> StdoutNothing]}

(***************************************************************************)
(* prompt_gen_v03: the CSV sink.                                           *)
(***************************************************************************)
HeaderRow ==
    << <<"T", "i", "t", "l", "e">>,
       <<"D", "e", "s", "c", "r", "i", "p", "t", "i", "o", "n">>,
       <<"S", "t", "y", "l", "e">> >>

\* save_prompts_to_csv that writes the header on every export
SavePromptsWithHeader(prompts_list, output_csv, save_mode) ==
    IF prompts_list = <<>> THEN csvFiles
    ELSE (output_csv :>
            ((IF save_mode = "append" /\ output_csv \in DOMAIN csvFiles
              THEN csvFiles[output_csv] ELSE <<>>)
             \o <<HeaderRow>>
             \o [i \in 1..Len(prompts_list) |->
                    <<prompts_list[i].title, prompts_list[i].description,
                      prompts_list[i].style>>]))
         @@ csvFiles

\* save_prompts_to_csv that opens the file with mode "w" whatever save_mode is
SavePromptsTruncating(prompts_list, output_csv, save_mode) ==
    IF prompts_list = <<>> \/ output_csv \in unwritable THEN csvFiles
    ELSE (output_csv :>
            (<<HeaderRow>>
             \o [i \in 1..Len(prompts_list) |->
                    <<prompts_list[i].title, prompts_list[i].description,
                      prompts_list[i].style>>]))
         @@ csvFiles

\* save_prompts_to_csv that opens the file with mode "a" whatever save_mode is
SavePromptsAppending(prompts_list, output_csv, save_mode) ==
    IF prompts_list = <<>> \/ output_csv \in unwritable THEN csvFiles
    ELSE (output_csv :>
            ((IF output_csv \in DOMAIN csvFiles
              THEN csvFiles[output_csv] ELSE <<HeaderRow>>)
             \o [i \in 1..Len(prompts_list) |->
                    <<prompts_list[i].title, prompts_list[i].description,
                      prompts_list[i].style>>]))
         @@ csvFiles

\* the files after save_prompts_to_csv(prompts_list, output_csv, save_mode)
\* (the list is cleared by the caller's step)
save_prompts_to_csv(prompts_list, output_csv, save_mode) ==
    IF prompts_list = <<>> THEN csvFiles
    ELSE IF output_csv \in unwritable THEN csvFiles
    ELSE LET exists == output_csv \in DOMAIN csvFiles
             appending == save_mode = "append"
             write_header == ~(appending /\ exists)
             kept == IF appending /\ exists THEN csvFiles[output_csv] ELSE <<>>
             rows == [i \in 1..Len(prompts_list) |->
                         <<prompts_list[i].title, prompts_list[i].description,
                           prompts_list[i].style>>]
         IN (output_csv :> (kept \o (IF write_header THEN <<HeaderRow>> ELSE <<>>) \o rows))
                @@ csvFiles

\* a save that keeps the list when the write failed
ListAfterSaveKeptOnError(prompts_list, output_csv) ==
    IF output_csv \in unwritable THEN prompts_list ELSE <<>>

\* line 192: the list after save_prompts_to_csv was given records
ListAfterSave(prompts_list, output_csv) == <<>>

\* an auto-save that is never due
AutoSaveNeverDue(prompt_index, auto_save_every) == FALSE

\* line 321: whether the buffer is saved after this acceptance
AutoSaveDue(prompt_index, auto_save_every) ==
    auto_save_every > 0 /\ prompt_index % auto_save_every = 0

\* the history of a save of a buffer by worker me: the records handed over,
\* those written, those that a failed write lost
Saved(me, buffer) ==
    LET failed == me.output_csv \in unwritable
    IN [me EXCEPT !.new_prompts_this_run = ListAfterSave(buffer, me.output_csv),
                  !.flushed = me.flushed \o buffer,
                  !.flushes = me.flushes + 1,
                  !.write_errors = me.write_errors + (IF failed THEN 1 ELSE 0),
                  !.lost = me.lost \o (IF failed THEN buffer ELSE <<>>),
                  !.last_written = IF failed THEN me.last_written ELSE buffer]

(***************************************************************************)
(* prompt_gen_v03: the worker threads (generate_prompts_for_model).        *)
(* A worker is at one of: "idle" (not started), "init" (started), "loop"   *)
(* (about to test the while condition), "call" (ollama is running),        *)
(* "accept" (the attempt was found new), "final" (left the loop), "done"   *)
(* (returned), "crashed" (ended by an uncaught exception).                 *)
(* prompt_gen1.py runs the same loop without the save inside the loop,     *)
(* which is this loop with auto_save_every = 0.                            *)
(***************************************************************************)
WorkerIds == {"w1", "w2"}

InLoop == {"init", "loop", "call", "accept"}

IdleWorker ==
    [pc |-> "idle", model_name |-> "", num_prompts |-> 0, output_csv |-> "",
     use_memory |-> FALSE, save_mode |-> "", auto_save_every |-> 0,
     prompt_index |-> 0, attempts |-> 0, new_prompts_this_run |-> <<>>,
     parsed |-> NoRecord,
     \* history of the loop, kept for the properties
     exit |-> "none",        \* why the loop was left
     polls |-> 0,            \* times the stop flag was read
     accepted |-> <<>>,      \* the records accepted, in order
     flushed |-> <<>>,       \* the records handed to save_prompts_to_csv, in order
     flushes |-> 0,          \* calls of save_prompts_to_csv with records
     stop_attempts |-> -1,   \* attempts when stop was requested during the loop
     fail_attempts |-> -1,   \* attempts when ollama failed
     fail_accepted |-> 0,    \* records accepted when ollama failed
     prior |-> [exists |-> FALSE, rows |-> <<>>],  \* the sink when the loop began
     write_errors |-> 0,     \* saves whose write failed
     lost |-> <<>>,          \* the records of those saves, in order
     last_written |-> <<>>]  \* the records of the last save that was written

\* lines 215-226: the bucket of the model is created, the counters start
WorkerInit(w) ==
    /\ workers[w].pc = "init"
    /\ ALL_PROMPTS_MEMORY' =
          IF workers[w].model_name \in DOMAIN ALL_PROMPTS_MEMORY
          THEN ALL_PROMPTS_MEMORY
          ELSE (workers[w].model_name :> <<>>) @@ ALL_PROMPTS_MEMORY
    /\ workers' = [workers EXCEPT
                      ![w].pc = "loop",
                      ![w].prior = IF workers[w].output_csv \in DOMAIN csvFiles
                                   THEN [exists |-> TRUE,
                                         rows |-> csvFiles[workers[w].output_csv]]
                                   ELSE [exists |-> FALSE, rows |-> <<>>]]
    /\ UNCHANGED <<stop_generation, csvFiles, runs, unwritable>>

\* lines 228-249: the while condition, the poll of the stop flag, attempts += 1
\* (the prompt text built next only reads the memory and changes nothing)
LoopHead(w) ==
    LET me == workers[w]
        max_attempts == me.num_prompts * 3
    IN
    /\ me.pc = "loop"
    /\ workers' =
          IF ~(me.prompt_index < me.num_prompts /\ me.attempts < max_attempts)
          THEN [workers EXCEPT ![w].pc = "final",
                               ![w].exit = IF me.prompt_index < me.num_prompts
                                           THEN "budget" ELSE "target"]
          ELSE IF stop_generation
          THEN [workers EXCEPT ![w].pc = "final", ![w].exit = "stopped",
                               ![w].polls = me.polls + 1]
          ELSE [workers EXCEPT ![w].pc = "call", ![w].polls = me.polls + 1,
                               ![w].attempts = me.attempts + 1]
    /\ UNCHANGED <<stop_generation, ALL_PROMPTS_MEMORY, csvFiles, runs, unwritable>>

\* a failed call that ends every loop in progress
CallReturnEndsEveryLoop(w, outcome) ==
    /\ workers[w].pc = "call"
    /\ outcome.raised
    /\ workers' = [v \in WorkerIds |->
                      IF workers[v].pc \in InLoop
                      THEN [workers[v] EXCEPT !.pc = "final", !.exit = "call_failed",
                                              !.fail_attempts = workers[v].attempts,
                                              !.fail_accepted = Len(workers[v].accepted)]
                      ELSE workers[v]]
    /\ UNCHANGED <<stop_generation, ALL_PROMPTS_MEMORY, csvFiles, runs, unwritable>>

\* lines 251-295: subprocess.run returns or raises, the response is parsed and
\* looked up in the memory of the model (use_memory) or in the run's buffer
CallReturn(w, outcome) ==
    LET me == workers[w]
        response_text == Strip(outcome.stdout, Whitespace)
        parsed == ParsedRecord(response_text)
        failed == outcome.raised \/ outcome.returncode # 0
        noted == IF failed
                 THEN [me EXCEPT !.fail_attempts = me.attempts,
                                 !.fail_accepted = Len(me.accepted)]
                 ELSE me
    IN
    /\ me.pc = "call"
    /\ workers' =
          IF outcome.raised
          THEN [workers EXCEPT ![w] = [noted EXCEPT !.pc = "final",
                                                    !.exit = "call_failed"]]
          ELSE IF me.use_memory /\ me.model_name \notin DOMAIN ALL_PROMPTS_MEMORY
          THEN [workers EXCEPT ![w] = [noted EXCEPT !.pc = "crashed",
                                                    !.exit = "KeyError"]]
          ELSE IF IsDuplicate(IF me.use_memory THEN ALL_PROMPTS_MEMORY[me.model_name]
                              ELSE me.new_prompts_this_run, parsed)
          THEN [workers EXCEPT ![w] = [noted EXCEPT !.pc = "loop"]]
          ELSE [workers EXCEPT ![w] = [noted EXCEPT !.pc = "accept",
                                                    !.parsed = parsed]]
    /\ UNCHANGED <<stop_generation, ALL_PROMPTS_MEMORY, csvFiles, runs, unwritable>>

\* lines 297-330: the record is counted, buffered, remembered (use_memory),
\* and the buffer is saved when the count is a multiple of auto_save_every
Accept(w) ==
    LET me == workers[w]
        prompt_index == me.prompt_index + 1
        buffer == Append(me.new_prompts_this_run, me.parsed)
        counted == [me EXCEPT !.prompt_index = prompt_index,
                              !.new_prompts_this_run = buffer,
                              !.accepted = Append(me.accepted, me.parsed),
                              !.parsed = NoRecord]
        saving == AutoSaveDue(prompt_index, me.auto_save_every)
    IN
    /\ me.pc = "accept"
    /\ IF me.use_memory /\ me.model_name \notin DOMAIN ALL_PROMPTS_MEMORY
       THEN /\ workers' = [workers EXCEPT ![w] = [counted EXCEPT !.pc = "crashed",
                                                                 !.exit = "KeyError"]]
            /\ UNCHANGED <<ALL_PROMPTS_MEMORY, csvFiles>>
       ELSE /\ ALL_PROMPTS_MEMORY' =
                  IF me.use_memory
                  THEN [ALL_PROMPTS_MEMORY EXCEPT
                           ![me.model_name] = Append(@, me.parsed)]
                  ELSE ALL_PROMPTS_MEMORY
            /\ csvFiles' = IF saving
                           THEN save_prompts_to_csv(buffer, me.output_csv, me.save_mode)
                           ELSE csvFiles
            /\ workers' =
                  [workers EXCEPT ![w] =
                      IF saving
                      THEN [Saved(counted, buffer) EXCEPT !.pc = "loop"]
                      ELSE [counted EXCEPT !.pc = "loop"]]
    /\ UNCHANGED <<stop_generation, runs, unwritable>>

\* lines 332-345: the final save of what is left in the buffer
FinalSave(w) ==
    LET me == workers[w]
        buffer == me.new_prompts_this_run
    IN
    /\ me.pc = "final"
    /\ csvFiles' = save_prompts_to_csv(buffer, me.output_csv, me.save_mode)
    /\ workers' =
          [workers EXCEPT ![w] =
              IF buffer # <<>>
              THEN [Saved(me, buffer) EXCEPT !.pc = "done"]
              ELSE [me EXCEPT !.pc = "done"]]
    /\ UNCHANGED <<stop_generation, ALL_PROMPTS_MEMORY, runs, unwritable>>

(***************************************************************************)
(* prompt_gen_v03: the buttons and the controlling thread.                 *)
(***************************************************************************)
ModelNames == {"m", "n"}
SaveModes == {"append", "overwrite"}
AutoSaveInputs == {<<"0">>, <<"1">>, <<"2">>}

\* lines 362-367: the value of the "auto save every" field
AutoSaveEvery(auto_save_every_str) ==
    LET v == ParseInt(auto_save_every_str)
    IN IF ~v.ok THEN 50 ELSE IF v.val < 0 THEN 0 ELSE v.val

\* a worker thread created by generate_prompts_threaded
NewWorker(model_name, num_prompts, output_csv, use_memory, save_mode, auto_save_every) ==
    [IdleWorker EXCEPT !.pc = "init", !.model_name = model_name,
                       !.num_prompts = num_prompts, !.output_csv = output_csv,
                       !.use_memory = use_memory, !.save_mode = save_mode,
                       !.auto_save_every = auto_save_every]

\* a start that leaves the stop flag as it finds it
StartGenerationKeepsStop(number_of_models, use_memory, save_mode, auto_save_every_str, model1_name, model1_count, model2_name, model2_count) ==
    LET idle == {w \in WorkerIds : workers[w].pc = "idle"}
        auto_save_every == AutoSaveEvery(auto_save_every_str)
        worker1 == NewWorker(model1_name, model1_count, "out1.csv", use_memory,
                             save_mode, auto_save_every)
        worker2 == NewWorker(model2_name, model2_count, "out2.csv", use_memory,
                             save_mode, auto_save_every)
        first == IF "w1" \in idle THEN "w1" ELSE "w2"
    IN
    /\ IF number_of_models = "two" THEN idle = WorkerIds ELSE idle # {}
    /\ stop_generation' = stop_generation
    /\ workers' = IF number_of_models = "two"
                  THEN [workers EXCEPT !["w1"] = worker1, !["w2"] = worker2]
                  ELSE [workers EXCEPT ![first] = worker1]
    /\ runs' = Append(runs, [number_of_models |-> number_of_models,
                             threads |-> IF number_of_models = "two"
                                         THEN WorkerIds ELSE {first},
                             finished |-> FALSE])
    /\ UNCHANGED <<ALL_PROMPTS_MEMORY, csvFiles, unwritable>>

\* start_generation and generate_prompts_threaded up to the start of the
\* worker threads: the stop flag is lowered, the fields of the window are
\* read, one or two workers are started
StartGeneration(number_of_models, use_memory, save_mode, auto_save_every_str, model1_name, model1_count, model2_name, model2_count) ==
    LET idle == {w \in WorkerIds : workers[w].pc = "idle"}
        auto_save_every == AutoSaveEvery(auto_save_every_str)
        worker1 == NewWorker(model1_name, model1_count, "out1.csv", use_memory,
                             save_mode, auto_save_every)
        worker2 == NewWorker(model2_name, model2_count, "out2.csv", use_memory,
                             save_mode, auto_save_every)
        first == IF "w1" \in idle THEN "w1" ELSE "w2"
    IN
    /\ IF number_of_models = "two" THEN idle = WorkerIds ELSE idle # {}
    /\ stop_generation' = FALSE
    /\ workers' = IF number_of_models = "two"
                  THEN [workers EXCEPT !["w1"] = worker1, !["w2"] = worker2]
                  ELSE [workers EXCEPT ![first] = worker1]
    /\ runs' = Append(runs, [number_of_models |-> number_of_models,
                             threads |-> IF number_of_models = "two"
                                         THEN WorkerIds ELSE {first},
                             finished |-> FALSE])
    /\ UNCHANGED <<ALL_PROMPTS_MEMORY, csvFiles, unwritable>>

\* FinishRun that waits for the first of the worker threads only
FinishRunAfterFirstJoin(r) ==
    /\ ~runs[r].finished
    /\ \E w \in runs[r].threads : workers[w].pc \in {"done", "crashed"}
    /\ runs' = [runs EXCEPT ![r].finished = TRUE]
    /\ UNCHANGED <<stop_generation, ALL_PROMPTS_MEMORY, csvFiles, workers, unwritable>>

\* generate_prompts_threaded from the joins on: "Generation process finished"
FinishRun(r) ==
    /\ ~runs[r].finished
    /\ \A w \in runs[r].threads : workers[w].pc \in {"done", "crashed"}
    /\ runs' = [runs EXCEPT ![r].finished = TRUE]
    /\ UNCHANGED <<stop_generation, ALL_PROMPTS_MEMORY, csvFiles, workers, unwritable>>

\* the Stop button
stop_generation_func ==
    /\ ~stop_generation
    /\ stop_generation' = TRUE
    /\ workers' = [w \in WorkerIds |->
                      IF workers[w].pc \in InLoop /\ workers[w].stop_attempts = -1
                      THEN [workers[w] EXCEPT !.stop_attempts = workers[w].attempts]
                      ELSE workers[w]]
    /\ UNCHANGED <<ALL_PROMPTS_MEMORY, csvFiles, runs, unwritable>>
    /\ UNCHANGED <<lvars, svars, nvars>>

\* the Reset Memory button
reset_memory_func ==
    /\ ALL_PROMPTS_MEMORY # <<>>
    /\ ALL_PROMPTS_MEMORY' = <<>>
    /\ UNCHANGED <<stop_generation, csvFiles, workers, runs, unwritable>>
    /\ UNCHANGED <<lvars, svars, nvars>>

InitGen ==
    /\ stop_generation = FALSE
    /\ ALL_PROMPTS_MEMORY = <<>>
    /\ csvFiles = <<>>
    /\ unwritable = {}
    /\ workers = [w \in WorkerIds |-> IdleWorker]
    /\ runs = <<>>

(***************************************************************************)
(* The generator window.  The fields of the window are filled in once      *)
(* (cfg); runs are started, stopped and the memory reset in any order      *)
(* while the worker threads take their steps.                              *)
(***************************************************************************)
WindowFields ==
    [number_of_models : {"one", "two"}, use_memory : BOOLEAN, save_mode : SaveModes,
     auto_save_every_str : AutoSaveInputs,
     model1_name : ModelNames, model1_count : 1..MaxTarget,
     model2_name : ModelNames, model2_count : 1..MaxTarget]

start_generation ==
    /\ cfg.node = "window"
    /\ StartGeneration(cfg.args.number_of_models, cfg.args.use_memory,
                       cfg.args.save_mode, cfg.args.auto_save_every_str,
                       cfg.args.model1_name, cfg.args.model1_count,
                       cfg.args.model2_name, cfg.args.model2_count)
    /\ UNCHANGED <<lvars, svars, nvars>>

generate_prompts_threaded ==
    /\ \E r \in 1..Len(runs) : FinishRun(r)
    /\ UNCHANGED <<lvars, svars, nvars>>

WorkerStarts == (\E w \in WorkerIds : WorkerInit(w)) /\ UNCHANGED <<lvars, svars, nvars>>

WorkerTestsLoop == (\E w \in WorkerIds : LoopHead(w)) /\ UNCHANGED <<lvars, svars, nvars>>

OllamaReturns ==
    /\ \E w \in WorkerIds, outcome \in Outcomes : CallReturn(w, outcome)
    /\ UNCHANGED <<lvars, svars, nvars>>

WorkerAccepts == (\E w \in WorkerIds : Accept(w)) /\ UNCHANGED <<lvars, svars, nvars>>

WorkerSaves == (\E w \in WorkerIds : FinalSave(w)) /\ UNCHANGED <<lvars, svars, nvars>>

(***************************************************************************)
(* rk_save_image                                                           *)
(***************************************************************************)
PngExt == <<".", "p", "n", "g">>

\* s.startswith(prefix), s.endswith(suffix)
StartsWith(s, prefix) == Len(s) >= Len(prefix) /\ SubSeq(s, 1, Len(prefix)) = prefix
EndsWith(s, suffix) ==
    Len(s) >= Len(suffix) /\ SubSeq(s, Len(s) - Len(suffix) + 1, Len(s)) = suffix

\* s.split(sep)[-1] and s.split(sep)[0] for a one-character sep
LastField(s, sep) ==
    LET at == {i \in 1..Len(s) : s[i] = sep}
    IN IF at = {} THEN s
       ELSE SubSeq(s, (CHOOSE i \in at : \A j \in at : j <= i) + 1, Len(s))
FirstField(s, sep) ==
    LET at == {i \in 1..Len(s) : s[i] = sep}
    IN IF at = {} THEN s
       ELSE SubSeq(s, 1, (CHOOSE i \in at : \A j \in at : i <= j) - 1)

\* the directories that exist under the output directory
SubDirs == {<<"s">>}

\* os.listdir(output_dir): the names directly inside it
listdir == {FirstField(path, "/") : path \in outputFiles} \cup SubDirs

\* os.path.dirname of a path relative to the output directory
DirName(path) ==
    LET at == {i \in 1..Len(path) : path[i] = "/"}
    IN IF at = {} THEN <<>>
       ELSE SubSeq(path, 1, (CHOOSE i \in at : \A j \in at : j <= i) - 1)

\* int(file.split('_')[-1].split('.')[0])
FileNumber(file) == ParseInt(FirstField(LastField(file, "_"), "."))

\* "Find the highest existing number"
HighestNum(filename_prefix) ==
    LET existing_files == {f \in listdir : StartsWith(f, filename_prefix)
                                              /\ EndsWith(f, PngExt)}
        nums == {FileNumber(f).val : f \in {g \in existing_files : FileNumber(g).ok}}
                   \cup {0}
    IN CHOOSE n \in nums : \A m \in nums : m <= n

\* f"{filename_prefix}_{counter:05}.png"
FileName(filename_prefix, counter) ==
    filename_prefix \o <<"_">> \o ZeroPad(NatStr(counter), 5) \o PngExt

NoSave == [op |-> None, filename_prefix |-> <<>>, highest_num |-> 0, names |-> <<>>,
           raised |-> FALSE, found |-> {}]

\* save_images for a batch of that many images
save_images(images, filename_prefix) ==
    LET highest_num == HighestNum(filename_prefix)
        counter == highest_num + 1
        names == [i \in 1..images |-> FileName(filename_prefix, counter + i - 1)]
        \* img.save raises when the directory of full_path does not exist
        dir == DirName(filename_prefix)
        raises == images > 0 /\ dir # <<>> /\ dir \notin SubDirs
    IN /\ nSaves' = nSaves + 1
       /\ IF raises
          THEN /\ UNCHANGED <<outputFiles, written>>
               /\ lastSave' = [op |-> "save_images", filename_prefix |-> filename_prefix,
                               highest_num |-> highest_num, names |-> <<>>,
                               raised |-> TRUE, found |-> outputFiles]
          ELSE /\ outputFiles' = outputFiles \cup {names[i] : i \in 1..images}
               /\ written' = written \o names
               /\ lastSave' = [op |-> "save_images", filename_prefix |-> filename_prefix,
                               highest_num |-> highest_num, names |-> names,
                               raised |-> FALSE, found |-> outputFiles]

InitSave ==
    /\ outputFiles = {}
    /\ written = <<>>
    /\ lastSave = NoSave
    /\ nSaves = 0

(***************************************************************************)
(* RK_Accumulate_Text_Multiline_Numbered                                   *)
(***************************************************************************)
Newline == {"\n"}

\* s.split("\n")
RECURSIVE SplitLines(_)
SplitLines(s) ==
    LET at == {i \in 1..Len(s) : s[i] = "\n"}
    IN IF at = {} THEN <<s>>
       ELSE LET first == CHOOSE i \in at : \A j \in at : i <= j
            IN <<SubSeq(s, 1, first - 1)>> \o SplitLines(SubSeq(s, first + 1, Len(s)))

\* s.strip() is empty
IsBlank(s) == Strip(s, Whitespace) = <<>>

\* "Combine inputs into a new block of text"
NewBlock(input_text_1, input_text_2) ==
    IF ~IsBlank(input_text_1) /\ ~IsBlank(input_text_2)
    THEN RStrip(input_text_1, Newline) \o <<"\n">> \o LStrip(input_text_2, Newline)
    ELSE IF ~IsBlank(input_text_1) THEN input_text_1
    ELSE input_text_2

\* a numbering loop that gives the same number to every line of a call
RECURSIVE NumberLinesOnce(_, _)
NumberLinesOnce(new_lines, count) ==
    IF new_lines = <<>> THEN [formatted_block |-> <<>>, line_count |-> count]
    ELSE LET line == Head(new_lines)
             rest == NumberLinesOnce(Tail(new_lines), count)
         IN IF ~IsBlank(line)
            THEN [formatted_block |-> <<NatStr(count) \o <<".", " ">> \o line>>
                                          \o rest.formatted_block,
                  line_count |-> count + 1]
            ELSE [formatted_block |-> <<line>> \o rest.formatted_block,
                  line_count |-> rest.line_count]

\* the loop "for line in new_lines" under line_numbering == "yes": the
\* formatted lines and line_count after it
RECURSIVE NumberLines(_, _)
NumberLines(new_lines, count) ==
    IF new_lines = <<>> THEN [formatted_block |-> <<>>, line_count |-> count]
    ELSE LET line == Head(new_lines)
         IN IF ~IsBlank(line)
            THEN LET rest == NumberLines(Tail(new_lines), count + 1)
                 IN [formatted_block |-> <<NatStr(count) \o <<".", " ">> \o line>>
                                             \o rest.formatted_block,
                     line_count |-> rest.line_count]
            ELSE LET rest == NumberLines(Tail(new_lines), count)
                 IN [formatted_block |-> <<line>> \o rest.formatted_block,
                     line_count |-> rest.line_count]

\* "Reset if requested"
Reset(reset_accumulation, text, count) ==
    IF reset_accumulation = "yes" THEN [text |-> <<>>, count |-> 1]
    ELSE [text |-> text, count |-> count]

NoAcc == [op |-> None, input_text_1 |-> <<>>, input_text_2 |-> <<>>, separator |-> <<>>,
          reset_accumulation |-> "no", line_numbering |-> "no", ret |-> <<>>,
          new_lines |-> <<>>]

accumulate_text(input_text_1, input_text_2, separator, reset_accumulation, line_numbering) ==
    LET r == Reset(reset_accumulation, accumulated_text, line_count)
        new_block == NewBlock(input_text_1, input_text_2)
        new_lines == SplitLines(new_block)
        numbered == IF line_numbering = "yes" THEN NumberLines(new_lines, r.count)
                    ELSE [formatted_block |-> new_lines, line_count |-> r.count]
        new_block_formatted == Join(<<"\n">>, numbered.formatted_block)
        text == IF IsBlank(new_block) THEN r.text
                ELSE IF ~IsBlank(r.text) /\ ~IsBlank(new_block_formatted)
                THEN r.text \o separator \o new_block_formatted
                ELSE IF IsBlank(r.text) THEN new_block_formatted
                ELSE r.text \o new_block_formatted
    IN /\ nAcc' = nAcc + 1
       /\ accumulated_text' = text
       /\ line_count' = IF IsBlank(new_block) THEN r.count ELSE numbered.line_count
       /\ lastAcc' = [op |-> "accumulate_text", input_text_1 |-> input_text_1,
                      input_text_2 |-> input_text_2, separator |-> separator,
                      reset_accumulation |-> reset_accumulation,
                      line_numbering |-> line_numbering, ret |-> text,
                      new_lines |-> IF IsBlank(new_block) THEN <<>> ELSE new_lines]

InitAccumulate ==
    /\ accumulated_text = <<>>
    /\ line_count = 1
    /\ lastAcc = NoAcc
    /\ nAcc = 0

(***************************************************************************)
(* One run of one model, with Stop and Reset Memory pressed at any time.   *)
(***************************************************************************)
LoopWindows ==
    {[node |-> "window", args |-> f] :
        f \in {g \in WindowFields : /\ g.number_of_models = "one"
                                    /\ g.model1_name = "m"
                                    /\ g.model2_name = "n"
                                    /\ g.model2_count = 1}}

InitLoop ==
    /\ InitLooper
    /\ InitSeed
    /\ InitSave
    /\ InitAccumulate
    /\ InitGen
    /\ cfg \in LoopWindows

StartOnce == runs = <<>> /\ start_generation

NextLoop ==
    \/ StartOnce
    \/ stop_generation_func
    \/ reset_memory_func
    \/ generate_prompts_threaded
    \/ WorkerStarts
    \/ WorkerTestsLoop
    \/ OllamaReturns
    \/ WorkerAccepts
    \/ WorkerSaves

SpecLoop == InitLoop /\ [][NextLoop]_vars

(***************************************************************************)
(* One run of one model whose CSV file may exist before the run and may    *)
(* refuse to be opened at any time (the file is open in another program,   *)
(* or its permissions change): open() in save_prompts_to_csv then raises.  *)
(***************************************************************************)
OldRow == << <<"o", "l", "d">>, <<>>, <<>> >>

SinkFiles == {<<>>, "out1.csv" :> <<HeaderRow, OldRow>>}

InitSink ==
    /\ InitLooper
    /\ InitSeed
    /\ InitSave
    /\ InitAccumulate
    /\ stop_generation = FALSE
    /\ ALL_PROMPTS_MEMORY = <<>>
    /\ csvFiles \in SinkFiles
    /\ unwritable = {}
    /\ workers = [w \in WorkerIds |-> IdleWorker]
    /\ runs = <<>>
    /\ cfg \in LoopWindows

SinkRefusesWrites ==
    /\ "out1.csv" \notin unwritable
    /\ unwritable' = unwritable \cup {"out1.csv"}
    /\ UNCHANGED <<stop_generation, ALL_PROMPTS_MEMORY, csvFiles, workers, runs>>
    /\ UNCHANGED <<lvars, svars, nvars>>

SinkTakesWrites ==
    /\ "out1.csv" \in unwritable
    /\ unwritable' = unwritable \ {"out1.csv"}
    /\ UNCHANGED <<stop_generation, ALL_PROMPTS_MEMORY, csvFiles, workers, runs>>
    /\ UNCHANGED <<lvars, svars, nvars>>

NextSink ==
    \/ StartOnce
    \/ stop_generation_func
    \/ reset_memory_func
    \/ generate_prompts_threaded
    \/ WorkerStarts
    \/ WorkerTestsLoop
    \/ OllamaReturns
    \/ WorkerAccepts
    \/ WorkerSaves
    \/ SinkRefusesWrites
    \/ SinkTakesWrites

SpecSink == InitSink /\ [][NextSink]_vars

(***************************************************************************)
(* Any runs of one or two models of one prompt each, started while         *)
(* earlier runs are still working or after them.                           *)
(***************************************************************************)
PairWindows ==
    {[node |-> "window", args |-> f] :
        f \in {g \in WindowFields : /\ g.auto_save_every_str \in {<<"0">>, <<"1">>}
                                    /\ g.model1_name = "m"
                                    /\ g.model1_count = 1
                                    /\ g.model2_count = 1}}

InitWindow ==
    /\ InitLooper
    /\ InitSeed
    /\ InitSave
    /\ InitAccumulate
    /\ InitGen
    /\ cfg \in PairWindows

NextWindow ==
    \/ start_generation
    \/ stop_generation_func
    \/ reset_memory_func
    \/ generate_prompts_threaded
    \/ WorkerStarts
    \/ WorkerTestsLoop
    \/ OllamaReturns
    \/ WorkerAccepts
    \/ WorkerSaves

SpecWindow == InitWindow /\ [][NextWindow]_vars

(***************************************************************************)
(* One node with one configuration, called again and again.                *)
(***************************************************************************)
LooperConfigs == {[node |-> "looper", args |-> c] : c \in Configs}

RowConfigs ==
    {[node |-> "row", args |-> c] :
        c \in [file_path : Paths, row_index : IndexValues]}

SeedConfigs ==
    {[node |-> "seed", args |-> c] :
        c \in [seed : {42}, loop_mode : SeedModes, start_value : {100, 1000},
               end_value : {300, 1000}, step_size : {0, 100, 400},
               loop_count : {1, 3}, decimal_places : {1, 2},
               custom_values : {CustomNone, CustomDefault, CustomBad}]}

InitNodes ==
    /\ InitLooper
    /\ InitSeed
    /\ InitSave
    /\ InitAccumulate
    /\ InitGen
    /\ cfg \in LooperConfigs \cup RowConfigs \cup SeedConfigs

ReadRowAgain ==
    /\ cfg.node = "looper"
    /\ nCalls < MaxCycleCalls
    /\ ReadRow("node1", cfg.args.looper, cfg.args.file_path, cfg.args.loop_mode,
               cfg.args.start_index, cfg.args.end_index, cfg.args.step_size)
    /\ UNCHANGED <<cfg, svars, gvars, nvars>>

ReadExcelRowAgain ==
    /\ cfg.node = "row"
    /\ nCalls < MaxCycleCalls
    /\ ReadExcelRow(cfg.args.file_path, cfg.args.row_index)
    /\ UNCHANGED <<cfg, svars, gvars, nvars>>

ProcessSeedAgain ==
    /\ cfg.node = "seed"
    /\ nCalls < MaxCycleCalls
    /\ ProcessSeed(cfg.args.seed, cfg.args.loop_mode, cfg.args.start_value,
                   cfg.args.end_value, cfg.args.step_size, cfg.args.loop_count,
                   cfg.args.decimal_places, cfg.args.custom_values)
    /\ UNCHANGED <<cfg, gvars, nvars>>

NextNodes == ReadRowAgain \/ ReadExcelRowAgain \/ ProcessSeedAgain

SpecNodes == InitNodes /\ [][NextNodes]_vars

(***************************************************************************)
(* One seed looper called with inputs chosen anew on every call; cfg holds *)
(* the inputs of the latest call.                                          *)
(***************************************************************************)
MaxSeedCalls == 4

\* the inputs that decide what happens to the counter vary from call to
\* call; the range of values is one
SeedAnyConfigs ==
    {c \in SeedConfigs : /\ c.args.start_value = 100 /\ c.args.end_value = 300
                         /\ c.args.step_size \in {0, 100}
                         /\ c.args.decimal_places = 1}

InitSeedAny ==
    /\ InitLooper
    /\ InitSeed
    /\ InitSave
    /\ InitAccumulate
    /\ InitGen
    /\ cfg = NoCfg

ProcessSeedAny ==
    /\ nCalls < MaxSeedCalls
    /\ \E c \in SeedAnyConfigs :
          /\ cfg' = c
          /\ ProcessSeed(c.args.seed, c.args.loop_mode, c.args.start_value,
                         c.args.end_value, c.args.step_size, c.args.loop_count,
                         c.args.decimal_places, c.args.custom_values)
    /\ UNCHANGED <<gvars, nvars>>

NextSeedAny == ProcessSeedAny

SpecSeedAny == InitSeedAny /\ [][NextSeedAny]_vars

(***************************************************************************)
(* A fresh seed looper stepped again and again with the same inputs.       *)
(* Values are in thousandths; no input makes a sum fall halfway between    *)
(* two roundings.                                                          *)
(***************************************************************************)
StepConfigs ==
    {[node |-> "seed", args |-> c] :
        c \in [seed : {42}, loop_mode : {"increment", "decrement"},
               start_value : {100, 300, 99800}, end_value : {100, 300, 100 * Scale},
               step_size : {40, 100, 130}, loop_count : {1, 2, 5},
               decimal_places : {1, 2, 3}, custom_values : {CustomNone}]}

InitSteps ==
    /\ InitLooper
    /\ InitSeed
    /\ InitSave
    /\ InitAccumulate
    /\ InitGen
    /\ cfg \in StepConfigs

NextSteps == ProcessSeedAgain

SpecSteps == InitSteps /\ [][NextSteps]_vars

(***************************************************************************)
(* The image saver called again and again on an output directory that may  *)
(* already hold images.                                                    *)
(***************************************************************************)
MaxSaves == 3
MaxImages == 2

PrefixImg == <<"i", "m", "g">>
\* a prefix that names an existing subfolder, and one that names a missing one
PrefixInFolder == <<"s", "/", "i", "m", "g">>
PrefixNoFolder == <<"t", "/", "i", "m", "g">>
Prefixes == {PrefixImg, PrefixInFolder, PrefixNoFolder}

\* what the output directory may hold before the first call: nothing, an
\* image of this node, an image the host's own saver wrote, a note
FoundImages ==
    {{}, {FileName(PrefixImg, 3)},
     {<<"i", "m", "g", "_", "0", "0", "0", "0", "7", "_", ".", "p", "n", "g">>,
      <<"i", "m", "g", "_", "x", ".", "p", "n", "g">>}}

InitImages ==
    /\ InitLooper
    /\ InitGen
    /\ InitSeed
    /\ cfg = NoCfg
    /\ outputFiles \in FoundImages
    /\ written = <<>>
    /\ lastSave = NoSave
    /\ nSaves = 0
    /\ InitAccumulate

SaveImagesAgain ==
    /\ nSaves < MaxSaves
    /\ \E images \in 1..MaxImages, filename_prefix \in Prefixes :
          save_images(images, filename_prefix)
    /\ UNCHANGED <<lvars, svars, gvars, avars>>

NextImages == SaveImagesAgain

SpecImages == InitImages /\ [][NextImages]_vars

(***************************************************************************)
(* The numbered accumulator called again and again with inputs chosen anew *)
(* on every call.                                                          *)
(***************************************************************************)
MaxAccCalls == 3

\* "", "a", "a", blank line, "b", and a space
Texts1 == {<<>>, <<"a">>, <<"a", "\n", " ", "\n", "b">>, <<" ">>}
\* "", "c", and a line break
Texts2 == {<<>>, <<"c">>, <<"\n">>}
Separators == {<<"\n">>, <<",", " ">>}

InitAccumulator ==
    /\ InitLooper
    /\ InitSeed
    /\ InitSave
    /\ InitAccumulate
    /\ InitGen
    /\ cfg = NoCfg

AccumulateAgain ==
    /\ nAcc < MaxAccCalls
    /\ \E input_text_1 \in Texts1, input_text_2 \in Texts2, separator \in Separators,
          reset_accumulation \in {"no", "yes"}, line_numbering \in {"no", "yes"} :
          accumulate_text(input_text_1, input_text_2, separator, reset_accumulation,
                          line_numbering)
    /\ UNCHANGED <<lvars, svars, gvars, ivars>>

NextAccumulator == AccumulateAgain

SpecAccumulator == InitAccumulator /\ [][NextAccumulator]_vars

(***************************************************************************)
(* The CSV looper called with a configuration chosen anew on every call.   *)
(***************************************************************************)
KeyConfigs ==
    {c \in Configs : /\ c.looper = "csv"
                     /\ c.loop_mode \in {"disabled", "increment"}
                     /\ c.start_index \in {0, 1, 6}
                     /\ c.end_index \in {0, 1, 6}}

InitKeys ==
    /\ InitLooper
    /\ InitSeed
    /\ InitSave
    /\ InitAccumulate
    /\ InitGen
    /\ cfg = NoCfg

ReadRowAny ==
    /\ nCalls < MaxCalls
    /\ \E c \in KeyConfigs :
          ReadRow("node1", c.looper, c.file_path, c.loop_mode, c.start_index, c.end_index,
                  c.step_size)
    /\ UNCHANGED <<cfg, svars, gvars, nvars>>

NextKeys == ReadRowAny

SpecKeys == InitKeys /\ [][NextKeys]_vars

(***************************************************************************)
(* One looper called again and again, with or without a file already at    *)
(* the path of its state file.                                             *)
(***************************************************************************)
\* the path of the state file of a configuration
StateFileOf(c) ==
    LET rng == NormalizeRange(c.start_index, c.end_index, Len(FileRows(c.file_path)))
    IN get_state_file_path(c.file_path, rng[1], rng[2], c.step_size, c.loop_mode)

\* what may be on disk before the first call: nothing, a position, or text
\* that is no number
FoundFiles(c) ==
    {<<>>} \cup {StateFileOf(c) :> content : content \in {<<"2", "\n">>, <<"x">>}}

InitFound ==
    /\ cfg \in LooperConfigs
    /\ stateFiles \in FoundFiles(cfg.args)
    /\ file_path_cache = NoPath
    /\ file_data_cache = <<>>
    /\ df_path = NoPath
    /\ df_cache = <<>>
    /\ nCalls = 0
    /\ calls = <<>>
    /\ owner = <<>>
    /\ served = <<>>
    /\ inflight = [t \in Nodes |-> NoFrame]
    /\ last = NoCall
    /\ InitSeed
    /\ InitSave
    /\ InitAccumulate
    /\ InitGen

NextFound == ReadRowAgain

SpecFound == InitFound /\ [][NextFound]_vars

(***************************************************************************)
(* One looper called again and again on a data source that has no rows.    *)
(***************************************************************************)
EmptyConfigs ==
    {[node |-> "looper", args |-> c] :
        c \in {k \in [looper : Loopers, file_path : {PathEmptyCsv, PathEmptyXlsx},
                      loop_mode : LoopModes, start_index : IndexValues,
                      end_index : IndexValues, step_size : StepSizes] :
                 (k.looper = "csv") = (k.file_path = PathEmptyCsv)}}

InitEmpty ==
    /\ cfg \in EmptyConfigs
    /\ stateFiles \in FoundFiles(cfg.args)
    /\ file_path_cache = NoPath
    /\ file_data_cache = <<>>
    /\ df_path = NoPath
    /\ df_cache = <<>>
    /\ nCalls = 0
    /\ calls = <<>>
    /\ owner = <<>>
    /\ served = <<>>
    /\ inflight = [t \in Nodes |-> NoFrame]
    /\ last = NoCall
    /\ InitSeed
    /\ InitSave
    /\ InitAccumulate
    /\ InitGen

NextEmpty == ReadRowAgain

SpecEmpty == InitEmpty /\ [][NextEmpty]_vars

(***************************************************************************)
(* Two looper nodes of one workflow with the same configuration, called    *)
(* one after the other in any order.                                       *)
(***************************************************************************)
SharedConfigs ==
    {[node |-> "looper", args |-> c] : c \in {g \in Configs : g.loop_mode = "increment"}}

InitShared ==
    /\ InitLooper
    /\ InitSeed
    /\ InitSave
    /\ InitAccumulate
    /\ InitGen
    /\ cfg \in SharedConfigs

ReadRowByEither ==
    /\ nCalls < MaxCycleCalls
    /\ \E self \in Nodes :
          ReadRow(self, cfg.args.looper, cfg.args.file_path, cfg.args.loop_mode,
                  cfg.args.start_index, cfg.args.end_index, cfg.args.step_size)
    /\ UNCHANGED <<cfg, svars, gvars, nvars>>

NextShared == ReadRowByEither

SpecShared == InitShared /\ [][NextShared]_vars

(***************************************************************************)
(* Two looper nodes with the same configuration whose read_row calls run   *)
(* in two threads: a call is three steps (position read, state file        *)
(* opened for writing, position written and row returned) and the steps    *)
(* of the two calls interleave freely, as nothing in the class takes a     *)
(* lock.                                                                   *)
(***************************************************************************)
InFlight == {t \in Nodes : inflight[t].pc # "idle"}

InitRace ==
    /\ InitLooper
    /\ InitSeed
    /\ InitSave
    /\ InitAccumulate
    /\ InitGen
    /\ cfg \in SharedConfigs

ReadRowBegins ==
    /\ nCalls + Cardinality(InFlight) < MaxRaceCalls
    /\ \E self \in Nodes :
          BeginReadRow(self, cfg.args.looper, cfg.args.file_path, cfg.args.loop_mode,
                       cfg.args.start_index, cfg.args.end_index, cfg.args.step_size)
    /\ UNCHANGED <<cfg, svars, gvars, nvars>>

StateFileOpens ==
    /\ \E self \in Nodes : OpenStateFile(self)
    /\ UNCHANGED <<cfg, svars, gvars, nvars>>

ReadRowReturns ==
    /\ \E self \in Nodes : FinishReadRow(self)
    /\ UNCHANGED <<cfg, svars, gvars, nvars>>

NextRace == ReadRowBegins \/ StateFileOpens \/ ReadRowReturns

SpecRace == InitRace /\ [][NextRace]_vars

(***************************************************************************)
(* Properties of the index looper and of the node boundaries.              *)
(***************************************************************************)
IncrementCall == last.op = "read_row" /\ last.loaded /\ last.loop_mode = "increment"

Period(a, b, s) == ((b - a) \div s) + 1

\* C1: in increment mode, from no state file, the k-th call on a normalized
\* range [a, b] with step s selects a + ((k-1) mod period) * s, where
\* period = floor((b-a)/s) + 1: it visits a, a+s, a+2s, ... and returns to a
\* exactly when the next value would exceed b.
C1_IncrementIsPeriodic ==
    IncrementCall =>
        last.chosen_index =
            last.start_index
              + ((last.k - 1) % Period(last.start_index, last.end_index, last.step_size))
                  * last.step_size

\* five rows, start 1, end 3, step 1: the fifth call selects 2 (1,2,3,1,2)
C1_Witness ==
    /\ IncrementCall
    /\ last.total_rows = 5 /\ last.start_index = 1 /\ last.end_index = 3
    /\ last.step_size = 1 /\ last.k = 5 /\ last.chosen_index = 2

\* C2: for total_length >= 1 and every raw pair (start_index, end_index), the
\* normalized range satisfies 0 <= start_index <= end_index <= total_length - 1.
C2_NormalizedRangeInBounds ==
    (last.op = "read_row" /\ last.loaded /\ last.total_rows >= 1) =>
        /\ 0 <= last.start_index
        /\ last.start_index <= last.end_index
        /\ last.end_index <= last.total_rows - 1

\* C7: read_row (both loopers) and read_excel_row never raise: every failure
\* gives the empty result and a logged message; process_seed re-raises.
C7_FailSoftBoundary ==
    /\ last.op = "read_row" =>
          /\ ~last.raised
          /\ last.err # "none" => (last.ret = EmptyResult(last.looper) /\ last.logged)
    /\ last.op = "read_excel_row" =>
          /\ ~last.raised
          /\ last.err # "none" => (last.ret = << <<>> >> /\ last.logged)
    /\ (last.op = "process_seed" /\ last.err # "none") => last.raised

\* an increment call whose selected index has no row returned the empty result
C7_Witness ==
    /\ last.op = "read_row" /\ last.err = "IndexError"
    /\ last.ret = EmptyResult(last.looper) /\ ~last.raised

\* C10: the state file of an increment call is used by no call with another
\* (data source path, start_index, end_index, step_size, mode).
C10_StateFileKeyInjective ==
    IncrementCall =>
        owner[last.state_file] =
            <<last.file_path, last.start_index, last.end_index, last.step_size,
              last.loop_mode>>

(***************************************************************************)
(* Properties of the prompt generator.                                     *)
(***************************************************************************)
Started == {w \in WorkerIds : workers[w].pc # "idle"}

Distinct(records) ==
    \A i, j \in 1..Len(records) : i # j => records[i] # records[j]

\* C3: within one run of generate_prompts_for_model, whatever use_memory and
\* the flush threshold are, no attempt is accepted whose record equals a
\* record accepted earlier in that run: the records accepted by one run are
\* pairwise different.
C3_NoRecordAcceptedTwiceInARun ==
    \A w \in Started : Distinct(workers[w].accepted)

\* C4: in every reachable state, no model's sequence in ALL_PROMPTS_MEMORY
\* holds two structurally equal records.
C4_MemoryHoldsNoDuplicate ==
    \A m \in DOMAIN ALL_PROMPTS_MEMORY : Distinct(ALL_PROMPTS_MEMORY[m])

LoopBounds(w) ==
    /\ workers[w].attempts <= 3 * workers[w].num_prompts
    /\ workers[w].prompt_index <= workers[w].num_prompts
    /\ workers[w].prompt_index <= workers[w].attempts

\* C5: at every point attempts <= 3 * target, accepted <= target and
\* accepted <= attempts; a worker is out of its loop only with accepted =
\* target, or attempts = 3 * target, or the stop flag seen, or the external
\* call having raised, and it is inside an attempt only while accepted <
\* target.
C5_LoopBoundsAndExits ==
    \A w \in Started :
        /\ LoopBounds(w)
        /\ workers[w].pc \in {"final", "done", "crashed"} =>
              \/ workers[w].prompt_index = workers[w].num_prompts
              \/ workers[w].attempts = 3 * workers[w].num_prompts
              \/ workers[w].exit = "stopped"
              \/ workers[w].exit = "call_failed"
        /\ workers[w].pc \in {"call", "accept"} =>
              workers[w].prompt_index < workers[w].num_prompts

\* the number of flushes that n accepted records take with threshold t,
\* the final flush included
FlushesFor(n, t) ==
    IF t > 0 THEN (n + t - 1) \div t ELSE IF n > 0 THEN 1 ELSE 0

\* C6: every accepted record is either in exactly one flush or still in the
\* buffer, in the order of acceptance; with T > 0 the flushes made inside the
\* loop are those at the multiples of T and the buffer holds the records
\* accepted since; with T = 0 no flush is made inside the loop; once the
\* worker has ended the buffer is empty and a last flush has written what
\* was left.
C6_FlushDiscipline ==
    \A w \in Started :
        LET me == workers[w]
            T == me.auto_save_every
        IN
        /\ me.flushed \o me.new_prompts_this_run = me.accepted
        /\ (me.pc \in {"loop", "call", "accept", "final"} /\ T > 0) =>
              /\ me.flushes = me.prompt_index \div T
              /\ Len(me.new_prompts_this_run) = me.prompt_index % T
        /\ (me.pc \in {"loop", "call", "accept", "final"} /\ T = 0) => me.flushes = 0
        /\ me.pc \in {"done", "crashed"} =>
              /\ me.new_prompts_this_run = <<>>
              /\ me.flushes = FlushesFor(me.prompt_index, T)

\* C8: after an external call that could not be invoked or that exited with
\* a non-zero status, the loop makes no further attempt, accepts no record
\* and is at its final flush or past it.
C8_FailedCallEndsTheLoop ==
    \A w \in Started :
        workers[w].fail_attempts # -1 =>
            /\ workers[w].attempts = workers[w].fail_attempts
            /\ Len(workers[w].accepted) = workers[w].fail_accepted
            /\ workers[w].pc \in {"final", "done"}

\* C9: a loop that was in flight when the stop flag was set starts no further
\* attempt and, once its thread has ended, has flushed all it buffered; the
\* flag is read once per iteration, before attempts is incremented.
C9_StopEndsEveryLoop ==
    \A w \in Started :
        /\ workers[w].polls =
              workers[w].attempts + (IF workers[w].exit = "stopped" THEN 1 ELSE 0)
        /\ workers[w].stop_attempts # -1 =>
              /\ workers[w].attempts = workers[w].stop_attempts
              /\ workers[w].pc \in {"done", "crashed"} =>
                    workers[w].new_prompts_this_run = <<>>

(***************************************************************************)
(* Further properties of the index looper.                                 *)
(***************************************************************************)
\* the n-th index a single looper is served on the range [a, b] with step s
RECURSIVE SingleLooperIndex(_, _, _, _)
SingleLooperIndex(n, a, b, s) ==
    IF n = 1 THEN a
    ELSE LET before == SingleLooperIndex(n - 1, a, b, s)
         IN IF before + s > b THEN a ELSE before + s

\* C11: looper nodes with the same (source, start, end, step, increment),
\* sharing one state file and called one after the other in any alternation,
\* are served together exactly the sequence a single looper is served: the
\* n-th call on the state file, whoever makes it, gets the n-th index of
\* that sequence (none repeated out of turn, none skipped).
C11_SharedStateFileServesOneSequence ==
    \A f \in DOMAIN served :
        \A n \in 1..Len(served[f]) :
            served[f][n].chosen_index =
                SingleLooperIndex(n, owner[f][2], owner[f][3], owner[f][4])

\* five rows, range 1..3, step 1: node1, node2, node2, node1 were served 1, 2, 3, 1
C11_Witness ==
    \E f \in DOMAIN served :
        /\ Len(served[f]) = 4
        /\ [n \in 1..4 |-> served[f][n].self] = <<"node1", "node2", "node2", "node1">>
        /\ [n \in 1..4 |-> served[f][n].chosen_index] = <<1, 2, 3, 1>>

ReadRowStep == nCalls' = nCalls + 1 /\ last'.op = "read_row"

\* C12: a disabled call that loaded its file selects the normalized
\* start_index, whatever calls came before and whatever file lies at the
\* path of its state file; a disabled or random call leaves every state file
\* as it was and creates none.
C12_DisabledAndRandomKeepNoState ==
    [][(ReadRowStep /\ last'.loop_mode \in {"disabled", "random"}) =>
          /\ stateFiles' = stateFiles
          /\ (last'.loop_mode = "disabled" /\ last'.loaded) =>
                last'.chosen_index = last'.start_index]_vars

\* the third disabled call on rows 1..3, with a position 2 already on disk
\* at the path of its state file, selected 1 and left the file alone
C12_Witness ==
    /\ last.op = "read_row" /\ last.loop_mode = "disabled" /\ last.loaded
    /\ nCalls = 3
    /\ last.start_index = 1 /\ last.end_index = 3 /\ last.chosen_index = 1
    /\ DOMAIN stateFiles # {}
    /\ \A f \in DOMAIN stateFiles : stateFiles[f] = <<"2", "\n">>

\* C13: whenever the file has rows, the index selected by read_row lies in
\* the normalized interval [start_index, end_index], in every mode and after
\* any earlier calls (the state file being written by the looper only).
C13_SelectedIndexInRange ==
    (last.op = "read_row" /\ last.loaded /\ last.total_rows > 0) =>
        /\ last.start_index <= last.chosen_index
        /\ last.chosen_index <= last.end_index

\* the fourth increment call on rows 1..3 with step 2 selected 3 (1, 3, 1, 3)
C13_Witness ==
    /\ IncrementCall /\ last.k = 4
    /\ last.start_index = 1 /\ last.end_index = 3 /\ last.step_size = 2
    /\ last.chosen_index = 3

\* the position that the state file of the last increment call holds
StoredIndex == ParseInt(stateFiles[last.state_file])

\* C14: after any sequence of increment calls on one configuration key, the
\* state file of the key holds an integer within the normalized range of the
\* key, and the first call, which finds no state, is served start_index.
C14_StoredIndexInRange ==
    IncrementCall =>
        /\ StoredIndex.ok
        /\ last.start_index <= StoredIndex.val
        /\ StoredIndex.val <= last.end_index
        /\ last.k = 1 => last.chosen_index = last.start_index

\* the third increment call on rows 1..3 with step 1 stored the start again
C14_Witness ==
    /\ IncrementCall /\ last.k = 3
    /\ last.start_index = 1 /\ last.end_index = 3 /\ last.step_size = 1
    /\ StoredIndex = [ok |-> TRUE, val |-> 1]

(***************************************************************************)
(* Further properties of the prompt generator.                             *)
(***************************************************************************)
\* the records that worker w hands to save_prompts_to_csv in this step
Batch(w) ==
    SubSeq(workers'[w].flushed, Len(workers[w].flushed) + 1, Len(workers'[w].flushed))

RowsOf(records) ==
    [i \in 1..Len(records) |->
        <<records[i].title, records[i].description, records[i].style>>]

C16_TwoModelRunUsesTwoBuckets ==
    \A r \in 1..Len(runs) :
        runs[r].number_of_models = "two" =>
            \A w, v \in runs[r].threads :
                w # v => workers[w].model_name # workers[v].model_name

\* C17: reset_memory_func at any point of a running loop never makes the
\* loop fail: no worker is ended by an exception, whatever was reset.
C17_ResetNeverEndsALoop ==
    \A w \in Started : workers[w].pc # "crashed"

\* C18: a two-model run has started both workers, and once it has reported
\* "Generation process finished" every worker of the run has ended: none is
\* in its loop or at its final save, and one that returned has saved all it
\* buffered.
C18_FinishedOnlyAfterBothWorkers ==
    \A r \in 1..Len(runs) :
        /\ runs[r].number_of_models = "two" =>
              (runs[r].threads = WorkerIds /\ runs[r].threads \subseteq Started)
        /\ runs[r].finished =>
              \A w \in runs[r].threads :
                  /\ workers[w].pc \in {"done", "crashed"}
                  /\ workers[w].pc = "done" => workers[w].new_prompts_this_run = <<>>

\* a two-model run reported finished after both workers made their final save
C18_Witness ==
    /\ Len(runs) = 1 /\ runs[1].number_of_models = "two" /\ runs[1].finished
    /\ \A w \in WorkerIds : workers[w].pc = "done" /\ workers[w].flushes = 1

\* C19: an increment call is served the position that the state file held
\* when it was called (start_index when there was no file, or no number in
\* it), not the advanced one: the Excel looper returns that index as text;
\* the file holds, when the call has returned, that index plus step_size if
\* that is <= end_index and start_index otherwise.
C19_ReturnsPositionReadStoresNext ==
    [][(ReadRowStep /\ last'.loop_mode = "increment" /\ last'.loaded) =>
          LET f == last'.state_file
              found == IF f \in DOMAIN stateFiles THEN ParseInt(stateFiles[f])
                       ELSE [ok |-> FALSE, val |-> 0]
              read == IF found.ok THEN found.val ELSE last'.start_index
              next == IF read + last'.step_size <= last'.end_index
                      THEN read + last'.step_size ELSE last'.start_index
          IN /\ last'.chosen_index = read
             /\ (last'.looper = "excel" /\ last'.err = "none") =>
                   last'.ret[2] = <<"Current Row Index: ">> \o IntStr(read)
             /\ f \in DOMAIN stateFiles'
             /\ ParseInt(stateFiles'[f]) = [ok |-> TRUE, val |-> next]]_vars

\* the Excel looper on rows 1..3, step 1, found the position 2 on disk: the
\* first call returned index 2 and stored 3
C19_Witness ==
    /\ IncrementCall /\ last.looper = "excel" /\ nCalls = 1
    /\ last.start_index = 1 /\ last.end_index = 3 /\ last.step_size = 1
    /\ last.chosen_index = 2
    /\ last.ret[2] = <<"Current Row Index: ">> \o <<"2">>
    /\ stateFiles[last.state_file] = <<"3">>

\* C20: the position is read and written in separate steps with nothing
\* held between them: a call returns the index it read when it began and
\* stores the advance of that index, whatever the state file holds by then.
\* With two calls on one key in flight, both can have read the same index:
\* both return it and the position advances once.
C20_ReadAndWriteAreNotAtomic ==
    [][\A t \in Nodes :
         (inflight[t].pc = "open" /\ inflight'[t].pc = "idle") =>
            LET fr == inflight[t]
                next == IF fr.chosen_index + fr.step_size <= fr.end_index
                        THEN fr.chosen_index + fr.step_size ELSE fr.start_index
            IN /\ last'.self = t
               /\ last'.chosen_index = fr.chosen_index
               /\ stateFiles'[fr.state_file] = IntStr(next)]_vars

\* rows 1..3, step 1, no state file: node1 and node2 were both served index
\* 1 and the file holds 2, not 3
C20_Witness ==
    /\ InFlight = {}
    /\ \E f \in DOMAIN served :
          /\ [n \in 1..Len(served[f]) |-> served[f][n].self] = <<"node1", "node2">>
          /\ [n \in 1..Len(served[f]) |-> served[f][n].chosen_index] = <<1, 1>>
          /\ owner[f][2] = 1 /\ owner[f][3] = 3 /\ owner[f][4] = 1
          /\ stateFiles[f] = <<"2">>

\* the attempt of worker w in progress was found to be a duplicate in this step
FoundDuplicate(w) == workers[w].pc = "call" /\ workers'[w].pc = "loop"

\* what a duplicate changes: the attempt was counted when it began, and the
\* step that finds the duplicate leaves the counters, the buffer, the memory
\* and the files as they are
DuplicateChangesNothing ==
    [][\A w \in WorkerIds :
          FoundDuplicate(w) =>
             /\ workers[w].attempts >= 1
             /\ workers'[w].attempts = workers[w].attempts
             /\ workers'[w].prompt_index = workers[w].prompt_index
             /\ workers'[w].new_prompts_this_run = workers[w].new_prompts_this_run
             /\ workers'[w].accepted = workers[w].accepted
             /\ workers'[w].flushed = workers[w].flushed
             /\ ALL_PROMPTS_MEMORY' = ALL_PROMPTS_MEMORY
             /\ csvFiles' = csvFiles]_vars

\* no UNPARSED record was accepted twice by one loop
UnparsedAcceptedOnce ==
    \A w \in Started :
        \A i, j \in 1..Len(workers[w].accepted) :
            (i # j /\ workers[w].accepted[i].title = Unparsed) =>
                workers[w].accepted[i] # workers[w].accepted[j]

\* C21: an attempt whose record (parsed, or the UNPARSED fallback) is found
\* to be a duplicate costs the attempt already counted and changes nothing
\* else (accepted counter, buffer, memory and files stay as they are); and a
\* loop that is given the same unparsable response again and again accepts
\* its UNPARSED record at most once.
C21_DuplicateCostsOnlyAnAttempt == DuplicateChangesNothing /\ []UnparsedAcceptedOnce

\* worker w accepts the record of its attempt in this step
Accepting(w) == workers[w].pc = "accept" /\ workers'[w].pc # "accept"

\* C22: accepting a record adds one to the accepted counter, appends the
\* record to the run buffer (which the same iteration may then save and
\* empty) and appends it to the bucket of the model exactly when use_memory
\* is on; with use_memory off no step of a run changes a record sequence of
\* the memory, and the record was looked up in the run buffer only.
C22_AcceptCountsBuffersRemembers ==
    [][\A w \in WorkerIds :
          LET me == workers[w]
              m == me.model_name
          IN
          /\ Accepting(w) =>
                /\ workers'[w].prompt_index = me.prompt_index + 1
                /\ workers'[w].flushed \o workers'[w].new_prompts_this_run
                      = me.flushed \o me.new_prompts_this_run \o <<me.parsed>>
                /\ IF me.use_memory
                   THEN /\ m \in DOMAIN ALL_PROMPTS_MEMORY
                        /\ ALL_PROMPTS_MEMORY' =
                              [ALL_PROMPTS_MEMORY EXCEPT ![m] = Append(@, me.parsed)]
                   ELSE ALL_PROMPTS_MEMORY' = ALL_PROMPTS_MEMORY
          /\ (me.pc \in InLoop \cup {"final"} /\ ~me.use_memory /\ workers'[w] # me) =>
                \A k \in DOMAIN ALL_PROMPTS_MEMORY :
                    /\ k \in DOMAIN ALL_PROMPTS_MEMORY'
                    /\ ALL_PROMPTS_MEMORY'[k] = ALL_PROMPTS_MEMORY[k]
          /\ (me.pc = "call" /\ workers'[w].pc = "accept" /\ ~me.use_memory) =>
                \A i \in 1..Len(me.new_prompts_this_run) :
                    me.new_prompts_this_run[i] # workers'[w].parsed]_vars

\* the record parsed from StdoutPrompt
PromptRecord == ParsedRecord(Strip(StdoutPrompt, Whitespace))

\* C23: the memory changes only by acceptance and by reset, and what it
\* holds is refused.  In every step either the record sequences of the
\* memory stay as they are (a bucket that appears is empty, whatever the CSV
\* files hold), or a worker with use_memory on appends the record it accepts
\* to the bucket of its model, or reset_memory_func empties the memory of
\* all models; so a record accepted for a model stays in its bucket through
\* every flush and every later run until a reset.  And a worker with
\* use_memory on never finds new a record that the bucket of its model holds.
C23_MemoryChangesByAcceptAndReset ==
    [][/\ \/ /\ DOMAIN ALL_PROMPTS_MEMORY \subseteq DOMAIN ALL_PROMPTS_MEMORY'
             /\ \A k \in DOMAIN ALL_PROMPTS_MEMORY' :
                   ALL_PROMPTS_MEMORY'[k] =
                      IF k \in DOMAIN ALL_PROMPTS_MEMORY THEN ALL_PROMPTS_MEMORY[k]
                      ELSE <<>>
          \/ \E w \in WorkerIds :
                /\ Accepting(w) /\ workers[w].use_memory
                /\ workers[w].model_name \in DOMAIN ALL_PROMPTS_MEMORY
                /\ ALL_PROMPTS_MEMORY' =
                      [ALL_PROMPTS_MEMORY EXCEPT
                          ![workers[w].model_name] = Append(@, workers[w].parsed)]
          \/ /\ ALL_PROMPTS_MEMORY' = <<>>
             /\ UNCHANGED <<workers, csvFiles, runs, stop_generation>>
       /\ \A w \in WorkerIds :
             (workers[w].pc = "call" /\ workers'[w].pc = "accept" /\ workers[w].use_memory) =>
                \A i \in 1..Len(ALL_PROMPTS_MEMORY[workers[w].model_name]) :
                    ALL_PROMPTS_MEMORY[workers[w].model_name][i] # workers'[w].parsed
      ]_vars

\* two runs for model "m" with use_memory on: the first accepted the prompt
\* and saved it; the second was given the same prompt on each of its three
\* attempts, accepted nothing, and the bucket still holds the one record
C23_Witness ==
    /\ Len(runs) = 2 /\ cfg.args.use_memory
    /\ workers["w1"].pc = "done" /\ workers["w1"].accepted = <<PromptRecord>>
    /\ workers["w1"].flushes = 1
    /\ workers["w2"].pc = "done" /\ workers["w2"].model_name = "m"
    /\ workers["w2"].attempts = 3 /\ workers["w2"].accepted = <<>>
    /\ workers["w2"].fail_attempts = -1
    /\ ALL_PROMPTS_MEMORY = ("m" :> <<PromptRecord>>)

\* the external call of worker w fails in this step: it raised, or the
\* process exited with a non-zero status
CallFails(w) ==
    /\ workers[w].pc = "call"
    /\ workers[w].fail_attempts = -1
    /\ workers'[w].fail_attempts # -1

\* C24: a failure of the external call in the loop of one worker touches
\* that worker only: the step leaves the other worker (its counters, its
\* buffer, its place in its loop), the stop flag, the memory and the files
\* as they are, so the sibling goes on to its own exit and final save.
C24_FailedCallLeavesSiblingAlone ==
    [][\A w \in WorkerIds :
          CallFails(w) =>
             /\ \A v \in WorkerIds \ {w} : workers'[v] = workers[v]
             /\ UNCHANGED <<stop_generation, ALL_PROMPTS_MEMORY, csvFiles, runs>>]_vars

\* a two-model run: the call of w1 raised on its first attempt and w1 ended
\* with nothing to save; w2 reached its target and saved its record
C24_Witness ==
    /\ Len(runs) = 1 /\ runs[1].number_of_models = "two"
    /\ workers["w1"].pc = "done" /\ workers["w1"].exit = "call_failed"
    /\ workers["w1"].fail_attempts = 1 /\ workers["w1"].flushes = 0
    /\ workers["w2"].pc = "done" /\ workers["w2"].exit = "target"
    /\ workers["w2"].prompt_index = 1 /\ workers["w2"].flushes = 1
    /\ "out2.csv" \in DOMAIN csvFiles

\* the state file at path f holds no position: it is absent or its content
\* is not an integer
NoPositionIn(f) == f \notin DOMAIN stateFiles \/ ~ParseInt(stateFiles[f]).ok

\* C25: an increment call that finds the state file of its configuration
\* absent, or holding something that is not an integer, does what a first
\* call does: it selects start_index, fails on nothing (it returns the row
\* at start_index), and leaves the file holding the advanced position.
C25_NoPositionMeansStart ==
    [][(ReadRowStep /\ last'.loop_mode = "increment" /\ last'.loaded
          /\ NoPositionIn(last'.state_file)) =>
          LET s == last'.start_index
              next == IF s + last'.step_size <= last'.end_index
                      THEN s + last'.step_size ELSE s
          IN /\ last'.chosen_index = s
             /\ last'.err = "none" /\ ~last'.raised /\ ~last'.logged
             /\ last'.ret = RowResult(last'.looper,
                                      RowAt(FileRows(last'.file_path), s).row, s)
             /\ stateFiles' = (last'.state_file :> IntStr(next)) @@ stateFiles]_vars

\* rows 1..3, step 1, the state file held "x": the call selected 1 and the
\* file now holds 2
C25_Witness ==
    /\ IncrementCall /\ nCalls = 1
    /\ last.start_index = 1 /\ last.end_index = 3 /\ last.step_size = 1
    /\ last.chosen_index = 1 /\ last.err = "none"
    /\ stateFiles = (last.state_file :> <<"2">>)
    /\ last.found = [exists |-> TRUE, text |-> <<"x">>]

\* the path that the class of a looper has cached
CachedPath(looper) == IF looper = "csv" THEN file_path_cache ELSE df_path

\* C26: the parse of the data file is cached under the path alone.  A call
\* for path P parses the file exactly when P is not the cached path (the
\* path of the last load that succeeded) and the load succeeds; a call that
\* loaded works on the rows of P and leaves P and its rows cached; a call
\* whose load failed (no such file, wrong extension) leaves the cached path
\* and rows as they were.
C26_CacheKeyedByPath ==
    [][ReadRowStep =>
          LET P == last'.file_path
              looper == last'.looper
          IN /\ last'.reparsed = (last'.loaded /\ CachedPath(looper) # P)
             /\ last'.loaded =>
                   /\ last'.total_rows = Len(FileRows(P))
                   /\ (IF looper = "csv" THEN file_path_cache' ELSE df_path') = P
                   /\ (IF looper = "csv" THEN file_data_cache' ELSE df_cache')
                         = FileRows(P)
             /\ ~last'.loaded =>
                   /\ CachedPath(looper) # P
                   /\ UNCHANGED <<file_path_cache, file_data_cache, df_path, df_cache>>]_vars

\* after a call for d.csv, a call for d.CSV parsed that file: its two rows
\* are cached
C26_Witness ==
    /\ nCalls = 2 /\ last.op = "read_row" /\ last.loop_mode = "disabled"
    /\ \E f \in DOMAIN owner : owner[f][1] = PathCsv
    /\ last.file_path = PathCsvUpper /\ last.reparsed /\ last.total_rows = 2
    /\ file_path_cache = PathCsvUpper /\ file_data_cache = Rows2

\* the worker returned from generate_prompts_for_model
Returned(w) == workers[w].pc = "done"

\* C27: in append mode, when no write failed, the file of a worker that has
\* returned holds what it held when the loop began (the header line if
\* there was no file) followed by the rows of the records the loop
\* accepted, each once and in the order of acceptance, whatever the flush
\* threshold and the way the loop ended; if nothing was accepted the file
\* is as it was.
C27_AppendKeepsEveryAcceptedRecord ==
    \A w \in Started :
        LET me == workers[w]
            f == me.output_csv
        IN (Returned(w) /\ me.save_mode = "append" /\ me.write_errors = 0) =>
              IF me.accepted = <<>>
              THEN (f \in DOMAIN csvFiles) = me.prior.exists
                   /\ (me.prior.exists => csvFiles[f] = me.prior.rows)
              ELSE /\ f \in DOMAIN csvFiles
                   /\ csvFiles[f] =
                         (IF me.prior.exists THEN me.prior.rows ELSE <<HeaderRow>>)
                            \o RowsOf(me.accepted)

\* append mode, threshold 1, onto a file of two lines: the loop accepted two
\* records, saved each at once, and the file holds four lines
C27_Witness ==
    /\ Returned("w1") /\ workers["w1"].save_mode = "append"
    /\ workers["w1"].auto_save_every = 1 /\ workers["w1"].write_errors = 0
    /\ workers["w1"].prior.exists
    /\ Len(workers["w1"].accepted) = 2 /\ workers["w1"].flushes = 2
    /\ csvFiles["out1.csv"] = <<HeaderRow, OldRow>> \o RowsOf(workers["w1"].accepted)

\* C28: in overwrite mode every save, inside the loop or final, opens the
\* file anew and truncates it: from the first save that was written on, the
\* file holds the header line and the rows of the last save written and
\* nothing else, so after a run that saved more than once the records of
\* its earlier saves (and what the file held before the run) are gone.
C28_OverwriteKeepsLastFlushOnly ==
    \A w \in Started :
        LET me == workers[w]
        IN (me.save_mode = "overwrite" /\ me.last_written # <<>>) =>
              /\ me.output_csv \in DOMAIN csvFiles
              /\ csvFiles[me.output_csv] = <<HeaderRow>> \o RowsOf(me.last_written)

\* overwrite mode, threshold 1: the loop accepted two records and saved
\* each at once; the file holds the header and the second record only
C28_Witness ==
    /\ Returned("w1") /\ workers["w1"].save_mode = "overwrite"
    /\ workers["w1"].auto_save_every = 1 /\ workers["w1"].write_errors = 0
    /\ workers["w1"].prior.exists
    /\ Len(workers["w1"].accepted) = 2 /\ workers["w1"].flushes = 2
    /\ workers["w1"].accepted[1] # workers["w1"].accepted[2]
    /\ csvFiles["out1.csv"] = <<HeaderRow>> \o RowsOf(<<workers["w1"].accepted[2]>>)

\* a save by worker w in this step finds that the file cannot be opened
SaveFails(w) ==
    /\ workers'[w].flushes > workers[w].flushes
    /\ workers[w].output_csv \in unwritable

\* a failed save empties the buffer and writes nothing; the worker goes on
\* (to the next iteration, or to its return after the final save) and the
\* memory loses nothing
FailedSaveDropsTheBuffer ==
    [][\A w \in WorkerIds :
          SaveFails(w) =>
             /\ workers'[w].new_prompts_this_run = <<>>
             /\ workers'[w].lost = workers[w].lost \o Batch(w)
             /\ workers'[w].pc \in {"loop", "done"}
             /\ csvFiles' = csvFiles
             /\ \A k \in DOMAIN ALL_PROMPTS_MEMORY :
                   /\ k \in DOMAIN ALL_PROMPTS_MEMORY'
                   /\ SubSeq(ALL_PROMPTS_MEMORY'[k], 1, Len(ALL_PROMPTS_MEMORY[k]))
                         = ALL_PROMPTS_MEMORY[k]]_vars

\* in append mode the file has gained one row for each record handed to a
\* save, less the records of the saves that failed
LostRecordsStayUnwritten ==
    \A w \in Started :
        LET me == workers[w]
            before == IF me.prior.exists THEN Len(me.prior.rows) ELSE 0
            header == IF me.prior.exists \/ Len(me.flushed) = Len(me.lost) THEN 0 ELSE 1
            now == IF me.output_csv \in DOMAIN csvFiles
                   THEN Len(csvFiles[me.output_csv]) ELSE 0
        IN (me.save_mode = "append" /\ me.pc # "init") =>
              now = before + header + Len(me.flushed) - Len(me.lost)

\* C29: save_prompts_to_csv empties the run buffer whether or not the write
\* succeeded.  When the file cannot be opened nothing is written, the error
\* is logged, the loop goes on, and the records of that save are in no later
\* save: the file never receives them (the memory keeps them when
\* use_memory is on).
C29_FailedSaveLosesItsRecords == FailedSaveDropsTheBuffer /\ []LostRecordsStayUnwritten

\* append mode, threshold 1, use_memory on, no file before the run: the save
\* of the first record failed, the save of the second was written; the file
\* holds the header and the second record, the memory holds both
C29_Witness ==
    /\ Returned("w1") /\ workers["w1"].save_mode = "append"
    /\ workers["w1"].use_memory /\ ~workers["w1"].prior.exists
    /\ Len(workers["w1"].accepted) = 2 /\ workers["w1"].write_errors = 1
    /\ workers["w1"].lost = <<workers["w1"].accepted[1]>>
    /\ workers["w1"].accepted[1] # workers["w1"].accepted[2]
    /\ csvFiles["out1.csv"] = <<HeaderRow>> \o RowsOf(<<workers["w1"].accepted[2]>>)
    /\ ALL_PROMPTS_MEMORY["m"] = workers["w1"].accepted

\* worker w is between two iterations of its loop (or before the first)
BetweenIterations(w) == workers[w].pc = "loop"

\* C30: at the end of every iteration of the loop of prompt_gen_v03 the run
\* buffer holds (accepted mod T) records when the flush threshold T is > 0,
\* hence fewer than T, and as many records as were accepted when T = 0.
C30_BufferHoldsAcceptedModThreshold ==
    \A w \in Started :
        LET me == workers[w]
            T == me.auto_save_every
        IN BetweenIterations(w) =>
              /\ me.prompt_index = Len(me.accepted)
              /\ IF T > 0
                 THEN /\ Len(me.new_prompts_this_run) = me.prompt_index % T
                      /\ Len(me.new_prompts_this_run) < T
                 ELSE Len(me.new_prompts_this_run) = me.prompt_index

\* threshold 2: the iteration that accepted the second record saved both
\* and left the buffer empty
C30_Witness ==
    /\ BetweenIterations("w1") /\ workers["w1"].auto_save_every = 2
    /\ workers["w1"].prompt_index = 2 /\ workers["w1"].flushes = 1
    /\ workers["w1"].new_prompts_this_run = <<>>

\* C31: in increment mode the advanced position is written before the row
\* is fetched.  A call whose selected index has no row in the data returns
\* the empty result, logs the error, and has nevertheless moved the position
\* in the state file on from the index it selected.
C31_PositionAdvancesBeforeFetch ==
    [][(ReadRowStep /\ last'.loop_mode = "increment" /\ last'.loaded
          /\ last'.err = "IndexError") =>
          LET f == last'.state_file
              chosen == last'.chosen_index
              next == IF chosen + last'.step_size <= last'.end_index
                      THEN chosen + last'.step_size ELSE last'.start_index
          IN /\ chosen >= last'.total_rows
             /\ last'.ret = EmptyResult(last'.looper)
             /\ ~last'.raised /\ last'.logged
             /\ f \in DOMAIN stateFiles'
             /\ stateFiles'[f] = IntStr(next)
             /\ next # chosen
             /\ f \in DOMAIN stateFiles => stateFiles'[f] # stateFiles[f]]_vars

\* five rows, raw start 6, raw end 6, step 1 (normalized range 4..6): the
\* second call selected index 5, which has no row, returned the empty
\* result and stored 6
C31_Witness ==
    /\ IncrementCall /\ last.total_rows = 5 /\ nCalls = 2
    /\ last.start_index = 4 /\ last.end_index = 6 /\ last.step_size = 1
    /\ last.chosen_index = 5 /\ last.err = "IndexError"
    /\ last.ret = EmptyResult(last.looper)
    /\ stateFiles[last.state_file] = <<"6">>

\* generate_prompts_threaded is entered in this step
RunStarts == Len(runs') = Len(runs) + 1

\* worker w reads the stop flag in this step
Polls(w) == workers'[w].polls = workers[w].polls + 1

\* C32: every start of a run lowers the stop flag, whatever workers of
\* earlier starts are doing, and leaves those workers as they are; a loop
\* acts on the flag as it is when the loop reads it.  So a stop requested
\* while a loop was running, and erased by a start before that loop read the
\* flag, is lost: the loop makes its next attempt.
C32_StartErasesPendingStop ==
    [][/\ RunStarts =>
             /\ stop_generation' = FALSE
             /\ \A w \in Started : workers'[w] = workers[w]
       /\ \A w \in WorkerIds :
             Polls(w) =>
                /\ (workers'[w].exit = "stopped") = stop_generation
                /\ ~stop_generation =>
                      /\ workers'[w].pc = "call"
                      /\ workers'[w].attempts = workers[w].attempts + 1]_vars

\* Stop was pressed when w1 had made no attempt; a second run was started
\* before w1 read the flag; w1 went on to its target
C32_Witness ==
    /\ Len(runs) = 2
    /\ workers["w1"].stop_attempts = 0
    /\ workers["w1"].attempts >= 1
    /\ workers["w1"].pc = "done" /\ workers["w1"].exit = "target"
    /\ workers["w1"].prompt_index = workers["w1"].num_prompts

(***************************************************************************)
(* C33: a data source with zero rows.                                      *)
(***************************************************************************)
EmptySources == {PathEmptyCsv, PathEmptyXlsx}

\* C33: every read_row call on a data source with zero rows, whatever the
\* mode and the raw start_index, end_index and step_size, loads the source,
\* finds no row at the selected index and returns the empty result (the
\* error is logged, not raised); in increment mode the call has nevertheless
\* written its state file, which afterwards holds the advanced position, and
\* in the other modes no state file is touched.
C33_EmptySourceYieldsNothing ==
    [][(ReadRowStep /\ last'.file_path \in EmptySources) =>
          LET f == last'.state_file
              chosen == last'.chosen_index
              next == IF chosen + last'.step_size <= last'.end_index
                      THEN chosen + last'.step_size ELSE last'.start_index
          IN /\ last'.loaded /\ last'.total_rows = 0
             /\ last'.err = "IndexError"
             /\ last'.ret = EmptyResult(last'.looper)
             /\ ~last'.raised /\ last'.logged
             /\ IF last'.loop_mode = "increment"
                THEN /\ f \in DOMAIN stateFiles'
                     /\ stateFiles'[f] = IntStr(next)
                     /\ \A g \in DOMAIN stateFiles : g # f =>
                            g \in DOMAIN stateFiles' /\ stateFiles'[g] = stateFiles[g]
                ELSE stateFiles' = stateFiles]_vars

\* the second increment call on a source with zero rows: the first call
\* found no state file, selected -1 and stored 0; this call read 0 from the
\* file, returned the empty result and rewrote the file with -1
C33_Witness ==
    /\ IncrementCall /\ last.file_path \in EmptySources /\ last.total_rows = 0
    /\ nCalls = 2 /\ last.k = 2
    /\ last.start_index = -1 /\ last.end_index = 0 /\ last.step_size = 1
    /\ last.found = [exists |-> TRUE, text |-> <<"0">>]
    /\ last.chosen_index = 0
    /\ last.ret = EmptyResult(last.looper)
    /\ stateFiles[last.state_file] = <<"-", "1">>

(***************************************************************************)
(* C34: the counter of the seed looper.                                    *)
(***************************************************************************)
ProcessSeedStep == nCalls' = nCalls + 1 /\ last'.op = "process_seed"

\* C34: a process_seed call that raises leaves the counter alone; a call
\* that returns in a mode other than disabled leaves 0 <= current_index <
\* loop_count; increment and decrement advance the counter by exactly one
\* and put it back to 0 when it reaches loop_count; disabled leaves it
\* unchanged; random and fixed never advance it (they only put it back to 0
\* when it is not below the loop_count of this call); the returned
\* loop_index is the counter after that update.
C34_CounterStaysBelowLoopCount ==
    [][ProcessSeedStep =>
          LET mode == cfg'.args.loop_mode
              loop_count == cfg'.args.loop_count
          IN IF last'.raised
             THEN current_index' = current_index
             ELSE /\ mode # "disabled" =>
                        0 <= current_index' /\ current_index' < loop_count
                  /\ mode \in {"increment", "decrement"} =>
                        current_index' = IF current_index + 1 >= loop_count
                                         THEN 0 ELSE current_index + 1
                  /\ mode = "disabled" => current_index' = current_index
                  /\ mode \in {"random", "fixed"} =>
                        current_index' = IF current_index >= loop_count
                                         THEN 0 ELSE current_index
                  /\ last'.ret[7] = current_index']_vars

\* the counter stood at 2 (stepping with loop_count 3) and a random-mode call
\* with loop_count 1 returned loop_index 0
C34_Witness ==
    /\ last.op = "process_seed" /\ ~last.raised /\ nCalls = 3
    /\ cfg.args.loop_mode = "random" /\ cfg.args.loop_count = 1
    /\ current_index = 0 /\ last.ret[7] = 0
    /\ current_value # 0

(***************************************************************************)
(* C35: the values of a stepping seed looper.                              *)
(***************************************************************************)
\* start_value + (((k-1) mod loop_count) mod n_steps) * step_size of the
\* k-th call, counted down from end_value in decrement mode
KthSum(k) ==
    LET a == cfg.args
        sv == IF a.start_value > a.end_value THEN a.end_value ELSE a.start_value
        ev == IF a.start_value > a.end_value THEN a.start_value ELSE a.end_value
        n_steps == RoundDiv(ev - sv, a.step_size) + 1
        adjusted_index == ((k - 1) % a.loop_count) % n_steps
    IN IF a.loop_mode = "increment" THEN sv + adjusted_index * a.step_size
       ELSE ev - adjusted_index * a.step_size

Capped(value) == IF value > 100 * Scale THEN 100 * Scale ELSE value

SteppingCall ==
    /\ last.op = "process_seed" /\ ~last.raised /\ nCalls >= 1
    /\ cfg.node = "seed" /\ cfg.args.loop_mode \in {"increment", "decrement"}

\* C35 as stated: the k-th stepping call on a fresh seed looper yields
\* start_value + (((k-1) mod loop_count) mod n_steps) * step_size (counted
\* down from end_value in decrement mode), capped at 100.
C35_KthValueIsTheSum ==
    SteppingCall => last.ret[6] = Capped(KthSum(nCalls))

\* C35: the k-th stepping call on a fresh seed looper with fixed inputs
\* yields that sum rounded to decimal_places decimals and then capped at
\* 100, with start and end swapped first when start > end; the position in
\* the cycle is (k-1) mod loop_count, so the values start again every
\* loop_count calls.
C35_KthValueIsTheRoundedSum ==
    SteppingCall =>
        /\ last.ret[6] = Capped(format_float(KthSum(nCalls), cfg.args.decimal_places))
        /\ current_value = last.ret[6]
        /\ current_index = nCalls % cfg.args.loop_count

\* start 0.1, end 0.3, step 0.1 (three steps), loop_count 2: the third call
\* yields 0.1 again, not 0.3
C35_Witness ==
    /\ SteppingCall /\ nCalls = 3
    /\ cfg.args.loop_mode = "increment" /\ cfg.args.loop_count = 2
    /\ cfg.args.start_value = 100 /\ cfg.args.end_value = 300
    /\ cfg.args.step_size = 100
    /\ last.ret[6] = 100

\* start 0.1, step 0.04, one decimal place: the second call yields 0.1
C35_Rounded ==
    /\ SteppingCall /\ nCalls = 2 /\ cfg.args.loop_count = 5
    /\ cfg.args.start_value = 100 /\ cfg.args.end_value = 300
    /\ cfg.args.step_size = 40 /\ cfg.args.decimal_places = 1
    /\ cfg.args.loop_mode = "increment"
    /\ last.ret[6] = 100

\* start 99.8, end 100, step 0.13: the third call yields 100, not 100.06
C35_CappedAtHundred ==
    /\ SteppingCall /\ nCalls = 3 /\ cfg.args.loop_count = 5
    /\ cfg.args.start_value = 99800 /\ cfg.args.end_value = 100 * Scale
    /\ cfg.args.step_size = 130 /\ cfg.args.decimal_places = 2
    /\ cfg.args.loop_mode = "increment"
    /\ last.ret[6] = 100 * Scale

(***************************************************************************)
(* C36: the names save_images writes to.                                   *)
(***************************************************************************)
SaveStep == nSaves' = nSaves + 1 /\ lastSave'.op = "save_images"

\* C36: no save_images call writes to a path that exists under the output
\* directory when the call begins; the first number it uses is above every
\* number of an existing file with the prefix, the numbers of one call are
\* consecutive, and no path is written twice by successive calls.
C36_NeverWritesExistingName ==
    [][SaveStep =>
          LET names == lastSave'.names
              prefix == lastSave'.filename_prefix
              first == lastSave'.highest_num + 1
          IN /\ \A i \in 1..Len(names) : names[i] \notin outputFiles
             /\ \A f \in outputFiles :
                   (StartsWith(f, prefix) /\ EndsWith(f, PngExt) /\ FileNumber(f).ok)
                       => FileNumber(f).val < first
             /\ \A i \in 1..Len(names) : names[i] = FileName(prefix, first + i - 1)
             /\ \A i, j \in 1..Len(written') : i # j => written'[i] # written'[j]]_vars

(***************************************************************************)
(* C37: the numbers of the numbered accumulator.                           *)
(***************************************************************************)
AccStep == nAcc' = nAcc + 1 /\ lastAcc'.op = "accumulate_text"

\* the number of non-blank lines among the first n of lines
RECURSIVE NonBlank(_, _)
NonBlank(lines, n) ==
    IF n = 0 THEN 0
    ELSE NonBlank(lines, n - 1) + (IF Strip(lines[n], Whitespace) = <<>> THEN 0 ELSE 1)

\* C37: with text0 and count0 the accumulated text and the counter at the
\* start of a call, or the empty text and 1 when reset_accumulation = yes:
\* a call whose input is blank leaves text0 and count0; a call with
\* numbering off leaves count0 and appends its lines as they are; a call
\* with numbering on gives its non-blank lines the numbers count0,
\* count0 + 1, ... in order, leaves its blank lines unnumbered, and leaves
\* the counter at count0 plus the number of its non-blank lines; the block
\* is appended to text0 after the separator, or is the whole text when
\* text0 is empty; the call returns the accumulated text.
C37_NumbersAreConsecutive ==
    [][AccStep =>
          LET yes == lastAcc'.reset_accumulation = "yes"
              text0 == IF yes THEN <<>> ELSE accumulated_text
              count0 == IF yes THEN 1 ELSE line_count
              lines == lastAcc'.new_lines
              on == lastAcc'.line_numbering = "yes"
              block == Join(<<"\n">>,
                            [i \in 1..Len(lines) |->
                                IF on /\ Strip(lines[i], Whitespace) # <<>>
                                THEN NatStr(count0 + NonBlank(lines, i - 1))
                                         \o <<".", " ">> \o lines[i]
                                ELSE lines[i]])
          IN /\ lastAcc'.ret = accumulated_text'
             /\ (lines = <<>>) = (/\ Strip(lastAcc'.input_text_1, Whitespace) = <<>>
                                  /\ Strip(lastAcc'.input_text_2, Whitespace) = <<>>)
             /\ IF lines = <<>>
                THEN accumulated_text' = text0 /\ line_count' = count0
                ELSE /\ line_count' = IF on THEN count0 + NonBlank(lines, Len(lines))
                                      ELSE count0
                     /\ accumulated_text' =
                            IF text0 = <<>> THEN block
                            ELSE text0 \o lastAcc'.separator \o block]_vars

\* two numbered calls, "a", a blank line and "b", then "c": the text reads
\* "1. a", the blank line, "2. b", "3. c" and the next number is 4
C37_Witness ==
    /\ nAcc = 2 /\ lastAcc.line_numbering = "yes" /\ lastAcc.reset_accumulation = "no"
    /\ line_count = 4
    /\ accumulated_text =
          <<"1", ".", " ", "a", "\n", " ", "\n", "2", ".", " ", "b", "\n",
            "3", ".", " ", "c">>

====
